---- MODULE Spec2Model ----
(***************************************************************************)
(* Model of the membit collector (membit-collector-server.js): the         *)
(* submission handler, the flush handler with its lock, the bootstrap and  *)
(* the RPOPLPUSH drain loop, startup recovery, all acting on one remote    *)
(* key/value-and-list store.  Every store call of a handler is one atomic  *)
(* step; handlers interleave between store calls.                          *)
(***************************************************************************)
EXTENDS Integers, Sequences, FiniteSets, Bags, TLC

VARIABLES
    INPUT_LIST,       \* "membit:input:list", head first
    INPUT_SEEN,       \* "membit:input:seen"
    READ_LIST,        \* "membit:read:list"
    READ_SEEN,        \* "membit:read:seen"
    PROCESSING_LIST,  \* "membit:processing:list"
    LOCK_FLUSH,       \* "membit:lock:flush": NoKey or [token, ttl]
    LAST_DATE_KEY,    \* "membit:last_date"
    today,            \* utcYMD() of the wall clock
    sub,              \* bag of the POST /collector handlers in progress
    fl,               \* bag of the POST /collector/flush handlers in progress
    rec,              \* the startup task (recoverProcessingList)
    hist,             \* history of the run, read only by the properties
    mix               \* api/mix.js: its cache, the gist, its clock, its request

store == <<INPUT_LIST, INPUT_SEEN, READ_LIST, READ_SEEN, PROCESSING_LIST,
           LOCK_FLUSH, LAST_DATE_KEY>>
vars == <<INPUT_LIST, INPUT_SEEN, READ_LIST, READ_SEEN, PROCESSING_LIST,
          LOCK_FLUSH, LAST_DATE_KEY, today, sub, fl, rec, hist, mix>>

----------------------------------------------------------------------------
(* Bounds *)

NumSub == 2          \* submission handlers in progress at a time
NumFlush == 2        \* flush handlers in progress at a time
MaxItems == 2        \* records per submission body
MaxStored == 3       \* records in the store plus records still being submitted
MaxCrashes == 1      \* process crashes in one run
MaxStoredTTL == 2    \* records in the store when flushes can outlive the lock
MaxFailures == 1     \* store calls that throw in one run

----------------------------------------------------------------------------
(* Values *)

Null == "null"

\* The records a client submits.  P1 and P1dup share an identifier, P2 has a
\* rest_id that wins over its id, PN has no identifier.
P1 == [rest_id |-> Null, id |-> "1", text |-> "a", generated_id |-> Null]
P1dup == [rest_id |-> Null, id |-> "1", text |-> "a-dup", generated_id |-> Null]
P2 == [rest_id |-> "2", id |-> "1", text |-> "b", generated_id |-> Null]
PN == [rest_id |-> Null, id |-> Null, text |-> "n", generated_id |-> Null]
Posts == {P1, P1dup, P2, PN}

\* placeholders for "no response yet", "no element", "no snapshot"
NoResult == [status |-> 0]
NoItem == [none |-> TRUE]
NoSnap == [none |-> TRUE]
NoKey == [none |-> TRUE]

Days == {"d1", "d2"}
Tokens == {"t-a"}
GenIds == {"_noid_x"}

itemIdOf(it) == IF it.rest_id # Null THEN it.rest_id ELSE it.id

\* String(id) of an identifier that is already a string
StringOf(id) == id

\* JSON.stringify / JSON.parse: a stored list element is the JSON text of one
\* object; raw text that is no JSON is a [raw |-> ...] element.
JSON_stringify(obj) == [json |-> obj]
IsJSON(s) == "json" \in DOMAIN s
JSON_parse(s) == s.json

SeqsUpTo(S, n) == UNION {[1..k -> S] : k \in 0..n}

----------------------------------------------------------------------------
(* Store primitives (Redis list and set commands) *)

\* an append that puts the value at the head
rpush_head(list, v) == <<v>> \o list

\* RPUSH appends at the tail
rpush(list, v) == Append(list, v)
lpush(list, v) == <<v>> \o list
Front(list) == SubSeq(list, 1, Len(list) - 1)
Last(list) == list[Len(list)]

RECURSIVE lrem1(_, _)
\* LREM key 1 v: remove the first occurrence of v, scanning from the head
lrem1(list, v) ==
    IF list = <<>> THEN <<>>
    ELSE IF Head(list) = v THEN Tail(list)
    ELSE <<Head(list)>> \o lrem1(Tail(list), v)

\* SADD returns 1 when the member is new, 0 when it was already there
sadd(set, m) == IF m \in set THEN 0 ELSE 1

\* a SETNX that overwrites: it reports success whether or not the key exists
setnx_overwrite(key) == 1

\* SETNX returns 1 and sets the key when it is absent, else 0
setnx(key) == IF key = NoKey THEN 1 ELSE 0

----------------------------------------------------------------------------
(* Views of the store used by the handlers and by the properties *)

TotalStored == Len(INPUT_LIST) + Len(READ_LIST) + Len(PROCESSING_LIST)

\* identifier (rest_id ?? id) of a stored element, Null when it has none
IdOfEntry(s) == IF IsJSON(s) THEN itemIdOf(JSON_parse(s)) ELSE Null

IdsOf(list) == {IdOfEntry(list[i]) : i \in 1..Len(list)} \ {Null}

CountId(list, x) == Cardinality({i \in 1..Len(list) : IdOfEntry(list[i]) = x})

CountNoId(list) == CountId(list, Null)

\* the store as a handler finds it, with what the history says of the last
\* operation (quiet: it was a completed flush; prev: that flush's result)
Snapshot == [INPUT_LIST |-> INPUT_LIST, INPUT_SEEN |-> INPUT_SEEN,
             READ_LIST |-> READ_LIST, READ_SEEN |-> READ_SEEN,
             PROCESSING_LIST |-> PROCESSING_LIST, quiet |-> hist.quiet,
             prev |-> hist.prev]

\* one handler of a bag moves from local state h to local state h2
Moved(bag, h, h2) == (bag (-) SetToBag({h})) (+) SetToBag({h2})

Handlers(bag) == BagToSet(bag)

\* number of handlers of a bag that satisfy P
CountOf(bag, P(_)) == BagCardinality([h \in {x \in BagToSet(bag) : P(x)} |-> CopiesIn(h, bag)])

----------------------------------------------------------------------------
(* POST /collector *)

\* the wall clock passes midnight (UTC)
NewDay ==
    /\ today = "d1"
    /\ today' = "d2"
    /\ UNCHANGED <<store, sub, fl, rec, hist, mix>>

\* body, snap: the request body and the store at the start of the for-loop,
\* kept for the properties (history)
SubStart == [pc |-> "get_date", items |-> <<>>, accepted |-> 0, skipped |-> 0,
             day |-> "d1", body |-> <<>>, snap |-> NoSnap]

\* the store call the for-loop over items performs next
SubLoopPc(items) ==
    IF items = <<>> THEN "llen"
    ELSE IF itemIdOf(Head(items)) = Null THEN "rpush_noid"
    ELSE "sismember"

RECURSIVE SumLen(_)
SumLen(S) == IF S = {} THEN 0
             ELSE LET h == CHOOSE x \in S : TRUE
                  IN CopiesIn(h, sub) * Len(h.items) + SumLen(S \ {h})

\* records of the submissions in progress that are not yet handled
Pending == SumLen(Handlers(sub))

\* request arrival and checkAndResetDaily: redis.get(LAST_DATE_KEY)
checkAndResetDaily_get(items) ==
    /\ BagCardinality(sub) < NumSub
    /\ TotalStored + Pending + Len(items) <= MaxStored
    /\ sub' = sub (+) SetToBag({
                 [SubStart EXCEPT !.items = items,
                                  !.pc = IF LAST_DATE_KEY # today THEN "del_all"
                                         ELSE SubLoopPc(items),
                                  !.day = today,
                                  !.body = IF hist.track THEN items ELSE <<>>,
                                  !.snap = IF hist.track /\ LAST_DATE_KEY = today
                                           THEN Snapshot ELSE NoSnap]})
    /\ hist' = IF hist.track
               THEN [hist EXCEPT !.quiet = FALSE, !.stage = "none"]
               ELSE hist
    /\ UNCHANGED <<store, today, mix, fl, rec>>

\* a reset that spares the Read Log and read-seen
checkAndResetDaily_del_input_only ==
  \E h \in Handlers(sub) :
    /\ h.pc = "del_all"
    /\ INPUT_LIST' = <<>>
    /\ INPUT_SEEN' = {}
    /\ sub' = Moved(sub, h, [h EXCEPT !.pc = "set_date"])
    /\ UNCHANGED <<READ_LIST, READ_SEEN, PROCESSING_LIST, LOCK_FLUSH,
                   LAST_DATE_KEY, today, mix, fl, rec, hist>>

\* redis.del(INPUT_LIST, INPUT_SEEN, READ_LIST, READ_SEEN)
checkAndResetDaily_del ==
  \E h \in Handlers(sub) :
    /\ h.pc = "del_all"
    /\ INPUT_LIST' = <<>>
    /\ INPUT_SEEN' = {}
    /\ READ_LIST' = <<>>
    /\ READ_SEEN' = {}
    /\ sub' = Moved(sub, h, [h EXCEPT !.pc = "set_date"])
    /\ UNCHANGED <<PROCESSING_LIST, LOCK_FLUSH, LAST_DATE_KEY, today, mix, fl, rec,
                   hist>>

\* redis.set(LAST_DATE_KEY, today), with the today computed on entry
checkAndResetDaily_set ==
  \E h \in Handlers(sub) :
    /\ h.pc = "set_date"
    /\ LAST_DATE_KEY' = h.day
    /\ sub' = Moved(sub, h, [h EXCEPT !.pc = SubLoopPc(h.items),
                                      !.snap = IF hist.track THEN Snapshot
                                               ELSE NoSnap])
    /\ UNCHANGED <<INPUT_LIST, INPUT_SEEN, READ_LIST, READ_SEEN,
                   PROCESSING_LIST, LOCK_FLUSH, today, mix, fl, rec, hist>>

\* a handler that skips a record without identifier whose text is queued
postCollector_rpush_noid_dedupe ==
  \E h \in Handlers(sub) :
    /\ h.pc = "rpush_noid"
    /\ LET it == Head(h.items)
           rest == Tail(h.items)
           queued == \E i \in 1..Len(INPUT_LIST) :
                        INPUT_LIST[i] = JSON_stringify(it)
       IN /\ INPUT_LIST' = IF queued THEN INPUT_LIST
                           ELSE rpush(INPUT_LIST, JSON_stringify(it))
          /\ sub' = Moved(sub, h,
                       [h EXCEPT !.items = rest,
                                 !.accepted = IF queued THEN @ ELSE @ + 1,
                                 !.skipped = IF queued THEN @ + 1 ELSE @,
                                 !.pc = SubLoopPc(rest)])
    /\ UNCHANGED <<INPUT_SEEN, READ_LIST, READ_SEEN, PROCESSING_LIST,
                   LOCK_FLUSH, LAST_DATE_KEY, today, mix, fl, rec, hist>>

\* no identifier: redis.rpush(INPUT_LIST, serialized); accepted++
postCollector_rpush_noid ==
  \E h \in Handlers(sub) :
    /\ h.pc = "rpush_noid"
    /\ LET it == Head(h.items)
           rest == Tail(h.items)
       IN /\ INPUT_LIST' = rpush(INPUT_LIST, JSON_stringify(it))
          /\ sub' = Moved(sub, h, [h EXCEPT !.items = rest,
                                            !.accepted = @ + 1,
                                            !.pc = SubLoopPc(rest)])
    /\ UNCHANGED <<INPUT_SEEN, READ_LIST, READ_SEEN, PROCESSING_LIST,
                   LOCK_FLUSH, LAST_DATE_KEY, today, mix, fl, rec, hist>>

\* a handler that does not look at READ_SEEN and goes on to the sadd
postCollector_sismember_blind ==
  \E h \in Handlers(sub) :
    /\ h.pc = "sismember"
    /\ sub' = Moved(sub, h, [h EXCEPT !.pc = "sadd"])
    /\ UNCHANGED <<store, today, mix, fl, rec, hist>>

\* redis.sismember(READ_SEEN, String(id)); alreadyRead: skipped++, continue
postCollector_sismember ==
  \E h \in Handlers(sub) :
    /\ h.pc = "sismember"
    /\ LET it == Head(h.items)
           rest == Tail(h.items)
           alreadyRead == StringOf(itemIdOf(it)) \in READ_SEEN
       IN sub' = Moved(sub, h,
                    IF alreadyRead
                    THEN [h EXCEPT !.items = rest, !.skipped = @ + 1,
                                   !.pc = SubLoopPc(rest)]
                    ELSE [h EXCEPT !.pc = "sadd"])
    /\ UNCHANGED <<store, today, mix, fl, rec, hist>>

\* redis.sadd(INPUT_SEEN, String(id)); added === 1 ? rpush next : skipped++
postCollector_sadd ==
  \E h \in Handlers(sub) :
    /\ h.pc = "sadd"
    /\ LET it == Head(h.items)
           rest == Tail(h.items)
           m == StringOf(itemIdOf(it))
           added == sadd(INPUT_SEEN, m)
       IN /\ INPUT_SEEN' = INPUT_SEEN \cup {m}
          /\ sub' = Moved(sub, h,
                       IF added = 1
                       THEN [h EXCEPT !.pc = "rpush"]
                       ELSE [h EXCEPT !.items = rest, !.skipped = @ + 1,
                                      !.pc = SubLoopPc(rest)])
    /\ UNCHANGED <<INPUT_LIST, READ_LIST, READ_SEEN, PROCESSING_LIST,
                   LOCK_FLUSH, LAST_DATE_KEY, today, mix, fl, rec, hist>>

\* a submission that puts the record at the head of INPUT_LIST
postCollector_rpush_front ==
  \E h \in Handlers(sub) :
    /\ h.pc = "rpush"
    /\ LET it == Head(h.items)
           rest == Tail(h.items)
       IN /\ INPUT_LIST' = lpush(INPUT_LIST, JSON_stringify(it))
          /\ sub' = Moved(sub, h, [h EXCEPT !.items = rest,
                                            !.accepted = @ + 1,
                                            !.pc = SubLoopPc(rest)])
    /\ UNCHANGED <<INPUT_SEEN, READ_LIST, READ_SEEN, PROCESSING_LIST,
                   LOCK_FLUSH, LAST_DATE_KEY, today, mix, fl, rec, hist>>

\* redis.rpush(INPUT_LIST, serialized); accepted++
postCollector_rpush ==
  \E h \in Handlers(sub) :
    /\ h.pc = "rpush"
    /\ LET it == Head(h.items)
           rest == Tail(h.items)
       IN /\ INPUT_LIST' = rpush(INPUT_LIST, JSON_stringify(it))
          /\ sub' = Moved(sub, h, [h EXCEPT !.items = rest,
                                            !.accepted = @ + 1,
                                            !.pc = SubLoopPc(rest)])
    /\ UNCHANGED <<INPUT_SEEN, READ_LIST, READ_SEEN, PROCESSING_LIST,
                   LOCK_FLUSH, LAST_DATE_KEY, today, mix, fl, rec, hist>>

\* redis.rpush(INPUT_LIST, serialized) throws after the sadd returned 1: the
\* catch of the handler answers 500
postCollector_rpush_throws ==
  \E h \in Handlers(sub) :
    /\ h.pc = "rpush"
    /\ hist.fails < MaxFailures
    /\ sub' = sub (-) SetToBag({h})
    /\ hist' = [hist EXCEPT !.fails = @ + 1, !.quiet = FALSE,
                            !.prev = [status |-> 500],
                            !.fail = [s |-> JSON_stringify(Head(h.items)),
                                      at |-> "post_rpush"]]
    /\ UNCHANGED <<store, today, mix, fl, rec>>

\* the body of the 201 answer of a handler that is at its last store call
SubResponse(h) == [status |-> 201, accepted |-> h.accepted,
                   skipped |-> h.skipped, total_in_input |-> Len(INPUT_LIST)]

\* redis.llen(INPUT_LIST); res.status(201).json({accepted, skipped, total_in_input})
postCollector_llen ==
  \E h \in Handlers(sub) :
    /\ h.pc = "llen"
    /\ sub' = sub (-) SetToBag({h})
    /\ UNCHANGED <<store, today, mix, fl, rec, hist>>

\* POST /collector with a body that is neither an array nor an object
\* with an array in posts: arrival and checkAndResetDaily's redis.get
postCollector_badBody_get ==
    /\ BagCardinality(sub) < NumSub
    /\ sub' = sub (+) SetToBag({
                 [SubStart EXCEPT !.pc = IF LAST_DATE_KEY # today
                                         THEN "bad_del_all" ELSE "bad_400",
                                  !.day = today,
                                  !.snap = IF hist.track THEN Snapshot
                                           ELSE NoSnap]})
    /\ hist' = IF hist.track
               THEN [hist EXCEPT !.quiet = FALSE, !.stage = "none"]
               ELSE hist
    /\ UNCHANGED <<store, today, mix, fl, rec>>

\* checkAndResetDaily of that request: redis.del of the four keys
postCollector_badBody_del ==
  \E h \in Handlers(sub) :
    /\ h.pc = "bad_del_all"
    /\ INPUT_LIST' = <<>>
    /\ INPUT_SEEN' = {}
    /\ READ_LIST' = <<>>
    /\ READ_SEEN' = {}
    /\ sub' = Moved(sub, h, [h EXCEPT !.pc = "bad_set_date"])
    /\ UNCHANGED <<PROCESSING_LIST, LOCK_FLUSH, LAST_DATE_KEY, today, mix, fl, rec,
                   hist>>

\* checkAndResetDaily of that request: redis.set(LAST_DATE_KEY, today)
postCollector_badBody_set ==
  \E h \in Handlers(sub) :
    /\ h.pc = "bad_set_date"
    /\ LAST_DATE_KEY' = h.day
    /\ sub' = Moved(sub, h, [h EXCEPT !.pc = "bad_400"])
    /\ UNCHANGED <<INPUT_LIST, INPUT_SEEN, READ_LIST, READ_SEEN,
                   PROCESSING_LIST, LOCK_FLUSH, today, mix, fl, rec, hist>>

\* res.status(400).json({error: "Body must be array or { posts: [...] }"})
postCollector_400 ==
  \E h \in Handlers(sub) :
    /\ h.pc = "bad_400"
    /\ sub' = sub (-) SetToBag({h})
    /\ hist' = IF hist.track
               THEN [hist EXCEPT !.prev = [status |-> 400]] ELSE hist
    /\ UNCHANGED <<store, today, mix, fl, rec>>

----------------------------------------------------------------------------
(* POST /collector/flush: acquireLock, flushAll, releaseLock *)

\* live: the lock key this handler set is still in the store (history)
\* failed: a store call of this handler's drain loop has thrown (history)
FlStart == [pc |-> "pexpire", inputs |-> <<>>, moved |-> 0, flushed |-> 0,
            s |-> NoItem, result |-> NoResult, snap |-> NoSnap, live |-> TRUE,
            failed |-> FALSE]

\* pcs of a handler that is between its acquireLock and its releaseLock
InFlushAll == {"llen1", "lindex", "del_read", "llen2", "lrange", "boot_rpush",
               "boot_sadd", "boot_del", "rpoplpush", "rpush_raw",
               "rpush_noid", "sadd", "rpush", "lrem", "requeue"}

RECURSIVE SumCopies(_, _)
SumCopies(bag, S) == IF S = {} THEN 0
                     ELSE LET e == CHOOSE x \in S : TRUE
                          IN CopiesIn(e, bag) + SumCopies(bag, S \ {e})

\* every handler of the bag loses the lock key it set
AllLost(bag) ==
    LET S == BagToSet(bag)
        T == {[e EXCEPT !.live = FALSE] : e \in S}
    IN [t \in T |-> SumCopies(bag, {e \in S : [e EXCEPT !.live = FALSE] = t})]

\* obj of the bootstrap loop: JSON.parse(s), or { text: s } when that throws
ParseOrWrap(s) ==
    IF IsJSON(s) THEN JSON_parse(s)
    ELSE [rest_id |-> Null, id |-> Null, text |-> s.raw, generated_id |-> Null]

\* request arrival and acquireLock: redis.setnx(LOCK_FLUSH, token); the
\* request is answered 423 when setnx returns 0
acquireLock_setnx ==
    /\ BagCardinality(fl) < NumFlush
    /\ \E token \in Tokens :
         LET ok == setnx(LOCK_FLUSH)
         IN IF ok = 1
            THEN /\ LOCK_FLUSH' = [token |-> token, ttl |-> FALSE]
                 /\ fl' = fl (+) SetToBag({FlStart})
            ELSE /\ LOCK_FLUSH' = LOCK_FLUSH
                 /\ fl' = fl
    /\ UNCHANGED <<INPUT_LIST, INPUT_SEEN, READ_LIST, READ_SEEN,
                   PROCESSING_LIST, LAST_DATE_KEY, today, mix, sub, rec, hist>>

\* acquireLock: redis.pexpire(LOCK_FLUSH, ttlMs); then flushAll starts
acquireLock_pexpire ==
  \E h \in Handlers(fl) :
    /\ h.pc = "pexpire"
    /\ LOCK_FLUSH' = IF LOCK_FLUSH = NoKey THEN NoKey
                     ELSE [LOCK_FLUSH EXCEPT !.ttl = TRUE]
    /\ fl' = Moved(fl, h, [h EXCEPT !.pc = "llen1",
                                    !.snap = IF hist.track THEN Snapshot
                                             ELSE NoSnap])
    /\ hist' = IF hist.track
               THEN [hist EXCEPT !.quiet = FALSE,
                        !.stage = IF @ = "recovered" THEN "flushing"
                                  ELSE IF @ = "flushed" THEN "none" ELSE @]
               ELSE hist
    /\ UNCHANGED <<INPUT_LIST, INPUT_SEEN, READ_LIST, READ_SEEN,
                   PROCESSING_LIST, LAST_DATE_KEY, today, mix, sub, rec>>

\* ensureReadStructures: totalRead = redis.llen(READ_LIST)
ensureReadStructures_llen1 ==
  \E h \in Handlers(fl) :
    /\ h.pc = "llen1"
    /\ fl' = Moved(fl, h, [h EXCEPT !.pc = IF Len(READ_LIST) > 0 THEN "lindex"
                                           ELSE "llen2"])
    /\ UNCHANGED <<store, today, mix, sub, rec, hist>>

\* a validity check that takes every Read Log for a placeholder
readListLooksValid_lindex_never ==
  \E h \in Handlers(fl) :
    /\ h.pc = "lindex"
    /\ fl' = Moved(fl, h, [h EXCEPT !.pc = "del_read"])
    /\ UNCHANGED <<store, today, mix, sub, rec, hist>>

\* readListLooksValid: redis.lindex(READ_LIST, 0), JSON.parse(first)
readListLooksValid_lindex ==
  \E h \in Handlers(fl) :
    /\ h.pc = "lindex"
    /\ LET valid == READ_LIST # <<>> /\ IsJSON(Head(READ_LIST))
       IN fl' = Moved(fl, h, [h EXCEPT !.pc = IF valid THEN "llen2"
                                              ELSE "del_read"])
    /\ UNCHANGED <<store, today, mix, sub, rec, hist>>

\* ensureReadStructures: redis.del(READ_LIST, READ_SEEN) of a placeholder
ensureReadStructures_del_read ==
  \E h \in Handlers(fl) :
    /\ h.pc = "del_read"
    /\ READ_LIST' = <<>>
    /\ READ_SEEN' = {}
    /\ fl' = Moved(fl, h, [h EXCEPT !.pc = "llen2"])
    /\ UNCHANGED <<INPUT_LIST, INPUT_SEEN, PROCESSING_LIST, LOCK_FLUSH,
                   LAST_DATE_KEY, today, mix, sub, rec, hist>>

\* ensureReadStructures: totalAfter = redis.llen(READ_LIST); -1 when not 0
ensureReadStructures_llen2 ==
  \E h \in Handlers(fl) :
    /\ h.pc = "llen2"
    /\ fl' = Moved(fl, h, [h EXCEPT !.pc = IF Len(READ_LIST) = 0 THEN "lrange"
                                           ELSE "rpoplpush"])
    /\ UNCHANGED <<store, today, mix, sub, rec, hist>>

\* ensureReadStructures: inputs = redis.lrange(INPUT_LIST, 0, -1)
ensureReadStructures_lrange ==
  \E h \in Handlers(fl) :
    /\ h.pc = "lrange"
    /\ fl' = Moved(fl, h,
                IF INPUT_LIST = <<>>
                THEN [h EXCEPT !.pc = "release",
                               !.result = [status |-> 200, flushed |-> 0,
                                           bootstrap |-> TRUE]]
                ELSE [h EXCEPT !.pc = "boot_rpush", !.inputs = INPUT_LIST,
                               !.moved = 0])
    /\ UNCHANGED <<store, today, mix, sub, rec, hist>>

\* where the bootstrap loop goes after an item: next item, the del, or return
BootAfter(f, moved) ==
    LET rest == Tail(f.inputs)
    IN IF rest # <<>>
       THEN [f EXCEPT !.inputs = rest, !.moved = moved, !.pc = "boot_rpush"]
       ELSE IF moved > 0
       THEN [f EXCEPT !.inputs = rest, !.moved = moved, !.pc = "boot_del"]
       ELSE [f EXCEPT !.inputs = rest, !.moved = moved, !.pc = "release",
                      !.result = [status |-> 200, flushed |-> moved,
                                  bootstrap |-> TRUE]]

\* ensureReadStructures: redis.rpush(READ_LIST, JSON.stringify(obj))
ensureReadStructures_rpush ==
  \E h \in Handlers(fl) :
    /\ h.pc = "boot_rpush"
    /\ LET obj == ParseOrWrap(Head(h.inputs))
       IN /\ READ_LIST' = rpush(READ_LIST, JSON_stringify(obj))
          /\ fl' = Moved(fl, h,
                      IF itemIdOf(obj) # Null
                      THEN [h EXCEPT !.pc = "boot_sadd"]
                      ELSE BootAfter(h, h.moved + 1))
    /\ UNCHANGED <<INPUT_LIST, INPUT_SEEN, READ_SEEN, PROCESSING_LIST,
                   LOCK_FLUSH, LAST_DATE_KEY, today, mix, sub, rec, hist>>

\* ensureReadStructures: if (id) redis.sadd(READ_SEEN, String(id)); moved++
ensureReadStructures_sadd ==
  \E h \in Handlers(fl) :
    /\ h.pc = "boot_sadd"
    /\ LET obj == ParseOrWrap(Head(h.inputs))
       IN /\ READ_SEEN' = READ_SEEN \cup {StringOf(itemIdOf(obj))}
          /\ fl' = Moved(fl, h, BootAfter(h, h.moved + 1))
    /\ UNCHANGED <<INPUT_LIST, INPUT_SEEN, READ_LIST, PROCESSING_LIST,
                   LOCK_FLUSH, LAST_DATE_KEY, today, mix, sub, rec, hist>>

\* a store call of the bootstrap loop throws on item s: the catch logs it
\* and the loop goes on with the next item, moved unchanged
BootThrown(h, at) ==
    /\ hist.fails < MaxFailures
    /\ fl' = Moved(fl, h, [BootAfter(h, h.moved) EXCEPT !.failed = TRUE])
    /\ hist' = [hist EXCEPT !.fails = @ + 1, !.quiet = FALSE,
                            !.fail = [s |-> Head(h.inputs), at |-> at]]
    /\ UNCHANGED <<store, today, mix, sub, rec>>

\* ensureReadStructures: redis.rpush(READ_LIST, ...) throws
ensureReadStructures_rpush_throws ==
  \E h \in Handlers(fl) : h.pc = "boot_rpush" /\ BootThrown(h, "boot_rpush")

\* ensureReadStructures: redis.sadd(READ_SEEN, ...) throws after the rpush
ensureReadStructures_sadd_throws ==
  \E h \in Handlers(fl) : h.pc = "boot_sadd" /\ BootThrown(h, "boot_sadd")

\* a bootstrap that returns moved and leaves INPUT_LIST and INPUT_SEEN
ensureReadStructures_del_none ==
  \E h \in Handlers(fl) :
    /\ h.pc = "boot_del"
    /\ fl' = Moved(fl, h, [h EXCEPT !.pc = "release",
                                    !.result = [status |-> 200,
                                                flushed |-> h.moved,
                                                bootstrap |-> TRUE]])
    /\ UNCHANGED <<store, today, mix, sub, rec, hist>>

\* ensureReadStructures: redis.del(INPUT_LIST, INPUT_SEEN); return moved
ensureReadStructures_del_input ==
  \E h \in Handlers(fl) :
    /\ h.pc = "boot_del"
    /\ INPUT_LIST' = <<>>
    /\ INPUT_SEEN' = {}
    /\ fl' = Moved(fl, h, [h EXCEPT !.pc = "release",
                                    !.result = [status |-> 200,
                                                flushed |-> h.moved,
                                                bootstrap |-> TRUE]])
    /\ UNCHANGED <<READ_LIST, READ_SEEN, PROCESSING_LIST, LOCK_FLUSH,
                   LAST_DATE_KEY, today, mix, sub, rec, hist>>

\* the store call that follows a moved item s in the drain loop
DrainPc(s) ==
    IF ~IsJSON(s) THEN "rpush_raw"
    ELSE IF itemIdOf(JSON_parse(s)) = Null THEN "rpush_noid"
    ELSE "sadd"

\* flushAll: s = redis.rpoplpush(INPUT_LIST, PROCESSING_LIST); break on null
flushAll_rpoplpush ==
  \E h \in Handlers(fl) :
    /\ h.pc = "rpoplpush"
    /\ IF INPUT_LIST = <<>>
       THEN /\ fl' = Moved(fl, h, [h EXCEPT !.pc = "release", !.s = NoItem,
                                            !.result = [status |-> 200,
                                                        flushed |-> h.flushed,
                                                        bootstrap |-> FALSE]])
            /\ UNCHANGED <<INPUT_LIST, PROCESSING_LIST>>
       ELSE LET s == Last(INPUT_LIST)
            IN /\ INPUT_LIST' = Front(INPUT_LIST)
               /\ PROCESSING_LIST' = lpush(PROCESSING_LIST, s)
               /\ fl' = Moved(fl, h, [h EXCEPT !.s = s, !.pc = DrainPc(s)])
    /\ UNCHANGED <<INPUT_SEEN, READ_LIST, READ_SEEN, LOCK_FLUSH,
                   LAST_DATE_KEY, today, mix, sub, rec, hist>>

\* flushAll, unparsable s: redis.rpush(READ_LIST, JSON.stringify({text: s}))
flushAll_rpush_raw ==
  \E h \in Handlers(fl) :
    /\ h.pc = "rpush_raw"
    /\ READ_LIST' = rpush(READ_LIST, JSON_stringify(ParseOrWrap(h.s)))
    /\ fl' = Moved(fl, h, [h EXCEPT !.flushed = @ + 1, !.pc = "lrem"])
    /\ UNCHANGED <<INPUT_LIST, INPUT_SEEN, READ_SEEN, PROCESSING_LIST,
                   LOCK_FLUSH, LAST_DATE_KEY, today, mix, sub, rec, hist>>

\* flushAll, no id: parsed._generated_id = random; redis.rpush(READ_LIST, ...)
flushAll_rpush_noid ==
  \E h \in Handlers(fl) :
    /\ h.pc = "rpush_noid"
    /\ \E g \in GenIds :
         READ_LIST' = rpush(READ_LIST,
             JSON_stringify([JSON_parse(h.s) EXCEPT !.generated_id = g]))
    /\ fl' = Moved(fl, h, [h EXCEPT !.flushed = @ + 1, !.pc = "lrem"])
    /\ UNCHANGED <<INPUT_LIST, INPUT_SEEN, READ_SEEN, PROCESSING_LIST,
                   LOCK_FLUSH, LAST_DATE_KEY, today, mix, sub, rec, hist>>

\* flushAll: added = redis.sadd(READ_SEEN, String(id)); duplicate when 0
flushAll_sadd ==
  \E h \in Handlers(fl) :
    /\ h.pc = "sadd"
    /\ LET m == StringOf(itemIdOf(JSON_parse(h.s)))
           added == sadd(READ_SEEN, m)
       IN /\ READ_SEEN' = READ_SEEN \cup {m}
          /\ fl' = Moved(fl, h, [h EXCEPT !.pc = IF added = 1 THEN "rpush"
                                                 ELSE "lrem"])
    /\ UNCHANGED <<INPUT_LIST, INPUT_SEEN, READ_LIST, PROCESSING_LIST,
                   LOCK_FLUSH, LAST_DATE_KEY, today, mix, sub, rec, hist>>

\* flushAll: redis.rpush(READ_LIST, JSON.stringify(parsed)); flushed++
flushAll_rpush ==
  \E h \in Handlers(fl) :
    /\ h.pc = "rpush"
    /\ READ_LIST' = rpush(READ_LIST, JSON_stringify(JSON_parse(h.s)))
    /\ fl' = Moved(fl, h, [h EXCEPT !.flushed = @ + 1, !.pc = "lrem"])
    /\ UNCHANGED <<INPUT_LIST, INPUT_SEEN, READ_SEEN, PROCESSING_LIST,
                   LOCK_FLUSH, LAST_DATE_KEY, today, mix, sub, rec, hist>>

\* flushAll: redis.lrem(PROCESSING_LIST, 1, s); next iteration
flushAll_lrem ==
  \E h \in Handlers(fl) :
    /\ h.pc = "lrem"
    /\ PROCESSING_LIST' = lrem1(PROCESSING_LIST, h.s)
    /\ fl' = Moved(fl, h, [h EXCEPT !.pc = "rpoplpush", !.s = NoItem])
    /\ UNCHANGED <<INPUT_LIST, INPUT_SEEN, READ_LIST, READ_SEEN, LOCK_FLUSH,
                   LAST_DATE_KEY, today, mix, sub, rec, hist>>

\* a store call of the drain loop throws: the handler is in the catch block
Thrown(h) ==
    /\ hist.fails < MaxFailures
    /\ fl' = Moved(fl, h, [h EXCEPT !.pc = "requeue", !.failed = TRUE])
    /\ hist' = [hist EXCEPT !.fails = @ + 1, !.quiet = FALSE,
                            !.fail = [s |-> h.s, at |-> h.pc]]
    /\ UNCHANGED <<store, today, mix, sub, rec>>

\* flushAll: redis.sadd(READ_SEEN, String(id)) throws
flushAll_sadd_throws ==
  \E h \in Handlers(fl) : h.pc = "sadd" /\ Thrown(h)

\* flushAll: redis.rpush(READ_LIST, ...) throws after the sadd returned 1
flushAll_rpush_throws ==
  \E h \in Handlers(fl) : h.pc = "rpush" /\ Thrown(h)

\* flushAll, no id: redis.rpush(READ_LIST, ...) throws
flushAll_rpush_noid_throws ==
  \E h \in Handlers(fl) : h.pc = "rpush_noid" /\ Thrown(h)

\* flushAll, catch block: redis.lpush(INPUT_LIST, s); the lrem follows
flushAll_lpush ==
  \E h \in Handlers(fl) :
    /\ h.pc = "requeue"
    /\ INPUT_LIST' = lpush(INPUT_LIST, h.s)
    /\ fl' = Moved(fl, h, [h EXCEPT !.pc = "lrem"])
    /\ UNCHANGED <<INPUT_SEEN, READ_LIST, READ_SEEN, PROCESSING_LIST,
                   LOCK_FLUSH, LAST_DATE_KEY, today, mix, sub, rec, hist>>

\* flushAll: redis.sadd(READ_SEEN, String(id)) throws again: the failure of
\* that call persists (the store goes on refusing it)
flushAll_sadd_keeps_throwing ==
  \E h \in Handlers(fl) :
    /\ h.pc = "sadd"
    /\ hist.fail # NoItem
    /\ hist.fail.at = "sadd"
    /\ fl' = Moved(fl, h, [h EXCEPT !.pc = "requeue", !.failed = TRUE])
    /\ UNCHANGED <<store, today, mix, sub, rec, hist>>

\* flushAll: redis.rpoplpush throws outside any try block; flushAll throws,
\* the finally block releases the lock and the request is answered 500
flushAll_rpoplpush_throws ==
  \E h \in Handlers(fl) :
    /\ h.pc = "rpoplpush"
    /\ hist.fails < MaxFailures
    /\ fl' = Moved(fl, h, [h EXCEPT !.pc = "release", !.failed = TRUE,
                                    !.result = [status |-> 500]])
    /\ hist' = [hist EXCEPT !.fails = @ + 1, !.quiet = FALSE,
                            !.fail = [s |-> NoItem, at |-> "rpoplpush"]]
    /\ UNCHANGED <<store, today, mix, sub, rec>>

\* finally releaseLock: redis.del(LOCK_FLUSH); res.status(200).json(result)
releaseLock_del ==
  \E h \in Handlers(fl) :
    /\ h.pc = "release"
    /\ LOCK_FLUSH' = NoKey
    /\ fl' = AllLost(fl (-) SetToBag({h}))
    /\ hist' = IF hist.track
               THEN [hist EXCEPT !.quiet = TRUE, !.prev = h.result,
                        !.stage = IF @ = "flushing" THEN "flushed" ELSE @]
               ELSE hist
    /\ UNCHANGED <<INPUT_LIST, INPUT_SEEN, READ_LIST, READ_SEEN,
                   PROCESSING_LIST, LAST_DATE_KEY, today, mix, sub, rec>>

\* releaseLock: redis.del(LOCK_FLUSH) throws; the catch logs it, the key
\* stays, and the handler ends with the result it has
releaseLock_del_throws ==
  \E h \in Handlers(fl) :
    /\ h.pc = "release"
    /\ hist.fails < MaxFailures
    /\ fl' = fl (-) SetToBag({h})
    /\ hist' = [hist EXCEPT !.fails = @ + 1, !.prev = h.result,
                            !.fail = [s |-> NoItem, at |-> "release"]]
    /\ UNCHANGED <<store, today, mix, sub, rec>>

\* request arrival and acquireLock: redis.setnx(LOCK_FLUSH, token) throws;
\* acquireLock returns null and the request is answered 423
acquireLock_setnx_throws ==
    /\ BagCardinality(fl) < NumFlush
    /\ hist.fails < MaxFailures
    /\ fl' = fl (+) SetToBag({[FlStart EXCEPT !.pc = "answer", !.live = FALSE,
                                              !.result = [status |-> 423]]})
    /\ hist' = [hist EXCEPT !.fails = @ + 1, !.quiet = FALSE,
                            !.fail = [s |-> NoItem, at |-> "setnx"]]
    /\ UNCHANGED <<store, today, mix, sub, rec>>

\* acquireLock: redis.pexpire(LOCK_FLUSH, ttlMs) throws after setnx
\* returned 1; acquireLock returns null and the request is answered 423
acquireLock_pexpire_throws ==
  \E h \in Handlers(fl) :
    /\ h.pc = "pexpire"
    /\ hist.fails < MaxFailures
    /\ fl' = Moved(fl, h, [h EXCEPT !.pc = "answer",
                                    !.result = [status |-> 423]])
    /\ hist' = [hist EXCEPT !.fails = @ + 1, !.quiet = FALSE,
                            !.fail = [s |-> NoItem, at |-> "pexpire"]]
    /\ UNCHANGED <<store, today, mix, sub, rec>>

\* a flush request that is turned away: it holds no lock and only has its
\* answer left to send
Rejected(status) == [FlStart EXCEPT !.pc = "answer", !.live = FALSE,
                                    !.result = [status |-> status]]

\* POST /collector/flush with FLUSH_SECRET configured and the X-SECRET
\* header missing or wrong: 401 before any store call
postFlush_unauthorized ==
    /\ BagCardinality(fl) < NumFlush
    /\ fl' = fl (+) SetToBag({Rejected(401)})
    /\ UNCHANGED <<store, today, mix, sub, rec, hist>>

\* a 423 answer that goes through the finally block and releases the lock
postFlush_locked_release ==
    /\ BagCardinality(fl) < NumFlush
    /\ setnx(LOCK_FLUSH) = 0
    /\ LOCK_FLUSH' = NoKey
    /\ fl' = AllLost(fl) (+) SetToBag({Rejected(423)})
    /\ UNCHANGED <<INPUT_LIST, INPUT_SEEN, READ_LIST, READ_SEEN,
                   PROCESSING_LIST, LAST_DATE_KEY, today, mix, sub, rec, hist>>

\* POST /collector/flush with the right secret while LOCK_FLUSH exists:
\* redis.setnx returns 0, acquireLock returns null, 423 before the try block
postFlush_locked ==
    /\ BagCardinality(fl) < NumFlush
    /\ setnx(LOCK_FLUSH) = 0
    /\ fl' = fl (+) SetToBag({Rejected(423)})
    /\ UNCHANGED <<store, today, mix, sub, rec, hist>>

\* res.status(401 or 423).json({error})
postFlush_answer ==
  \E h \in Handlers(fl) :
    /\ h.pc = "answer"
    /\ fl' = fl (-) SetToBag({h})
    /\ hist' = [hist EXCEPT !.prev = h.result]
    /\ UNCHANGED <<store, today, mix, sub, rec>>

----------------------------------------------------------------------------
(* Process crash, restart, and the startup task recoverProcessingList *)

RecOff == [pc |-> "off", itm |-> NoItem]

\* the process serving flush handler h dies between two store calls; the
\* restarted process runs the startup task before it listens again
Crash ==
  \E h \in Handlers(fl) :
    /\ rec.pc = "off"
    /\ hist.crashes < MaxCrashes
    /\ fl' = fl (-) SetToBag({h})
    /\ rec' = [pc |-> "llen", itm |-> NoItem]
    /\ hist' = [hist EXCEPT !.quiet = FALSE, !.stage = "crashed",
                            !.crashes = @ + 1,
                            !.crash = [at |-> h.pc, start |-> h.snap,
                                       INPUT_LIST |-> INPUT_LIST,
                                       PROCESSING_LIST |-> PROCESSING_LIST]]
    /\ UNCHANGED <<store, today, mix, sub>>

RecDone == /\ rec' = RecOff
           /\ hist' = [hist EXCEPT !.stage = IF @ = "crashed" THEN "recovered"
                                             ELSE @]

\* recoverProcessingList: procLen = redis.llen(PROCESSING_LIST)
recoverProcessingList_llen ==
    /\ rec.pc = "llen"
    /\ IF Len(PROCESSING_LIST) = 0
       THEN RecDone
       ELSE rec' = [rec EXCEPT !.pc = "rpop"] /\ hist' = hist
    /\ UNCHANGED <<store, today, mix, sub, fl>>

\* recoverProcessingList: itm = redis.rpop(PROCESSING_LIST); break on null
recoverProcessingList_rpop ==
    /\ rec.pc = "rpop"
    /\ IF PROCESSING_LIST = <<>>
       THEN RecDone /\ UNCHANGED PROCESSING_LIST
       ELSE /\ PROCESSING_LIST' = Front(PROCESSING_LIST)
            /\ rec' = [pc |-> "lpush", itm |-> Last(PROCESSING_LIST)]
            /\ hist' = hist
    /\ UNCHANGED <<INPUT_LIST, INPUT_SEEN, READ_LIST, READ_SEEN, LOCK_FLUSH,
                   LAST_DATE_KEY, today, mix, sub, fl>>

\* recoverProcessingList: redis.lpush(INPUT_LIST, itm)
recoverProcessingList_lpush ==
    /\ rec.pc = "lpush"
    /\ INPUT_LIST' = lpush(INPUT_LIST, rec.itm)
    /\ rec' = [pc |-> "rpop", itm |-> NoItem]
    /\ hist' = [hist EXCEPT !.quiet = FALSE]
    /\ UNCHANGED <<INPUT_SEEN, READ_LIST, READ_SEEN, PROCESSING_LIST,
                   LOCK_FLUSH, LAST_DATE_KEY, today, mix, sub, fl>>

\* the store drops LOCK_FLUSH when its time-to-live (60 s) has run out
LockExpire ==
    /\ LOCK_FLUSH # NoKey
    /\ LOCK_FLUSH.ttl
    /\ LOCK_FLUSH' = NoKey
    /\ fl' = AllLost(fl)
    /\ UNCHANGED <<INPUT_LIST, INPUT_SEEN, READ_LIST, READ_SEEN,
                   PROCESSING_LIST, LAST_DATE_KEY, today, mix, sub, rec, hist>>

----------------------------------------------------------------------------
(* api/collector.js: the serverless handler on the same keys.  Its POST     *)
(* dedupes in INPUT_SEEN only, its flush (GET ?flush=1) reads the whole     *)
(* INPUT_LIST, and its daily reset clears INPUT_LIST and INPUT_SEEN only.   *)

CHUNK_SIZE == 100

\* the store call the for-loop over items performs next
ApiLoopPc(items) ==
    IF items = <<>> THEN "api_llen"
    ELSE IF itemIdOf(Head(items)) = Null THEN "api_rpush_noid"
    ELSE "api_sadd"

\* POST arrival and checkAndResetDaily: redis.get(LAST_DATE_KEY)
api_checkAndResetDaily_get(items) ==
    /\ BagCardinality(sub) < NumSub
    /\ TotalStored + Pending + Len(items) <= MaxStored
    /\ sub' = sub (+) SetToBag({
                 [SubStart EXCEPT !.items = items,
                                  !.pc = IF LAST_DATE_KEY # today
                                         THEN "api_del_input"
                                         ELSE ApiLoopPc(items),
                                  !.day = today,
                                  !.body = IF hist.track THEN items ELSE <<>>,
                                  !.snap = IF hist.track /\ LAST_DATE_KEY = today
                                           THEN Snapshot ELSE NoSnap]})
    /\ hist' = IF hist.track
               THEN [hist EXCEPT !.quiet = FALSE, !.stage = "none"]
               ELSE hist
    /\ UNCHANGED <<store, today, mix, fl, rec>>

\* checkAndResetDaily: redis.del(INPUT_LIST, INPUT_SEEN)
api_checkAndResetDaily_del ==
  \E h \in Handlers(sub) :
    /\ h.pc = "api_del_input"
    /\ INPUT_LIST' = <<>>
    /\ INPUT_SEEN' = {}
    /\ sub' = Moved(sub, h, [h EXCEPT !.pc = "api_set_date"])
    /\ UNCHANGED <<READ_LIST, READ_SEEN, PROCESSING_LIST, LOCK_FLUSH,
                   LAST_DATE_KEY, today, mix, fl, rec, hist>>

\* checkAndResetDaily: redis.set(LAST_DATE_KEY, today)
api_checkAndResetDaily_set ==
  \E h \in Handlers(sub) :
    /\ h.pc = "api_set_date"
    /\ LAST_DATE_KEY' = h.day
    /\ sub' = Moved(sub, h, [h EXCEPT !.pc = ApiLoopPc(h.items),
                                      !.snap = IF hist.track THEN Snapshot
                                               ELSE NoSnap])
    /\ UNCHANGED <<INPUT_LIST, INPUT_SEEN, READ_LIST, READ_SEEN,
                   PROCESSING_LIST, LOCK_FLUSH, today, mix, fl, rec, hist>>

\* no identifier: redis.rpush(INPUT_LIST, JSON.stringify(it)); accepted++
api_post_rpush_noid ==
  \E h \in Handlers(sub) :
    /\ h.pc = "api_rpush_noid"
    /\ LET it == Head(h.items)
           rest == Tail(h.items)
       IN /\ INPUT_LIST' = rpush(INPUT_LIST, JSON_stringify(it))
          /\ sub' = Moved(sub, h, [h EXCEPT !.items = rest,
                                            !.accepted = @ + 1,
                                            !.pc = ApiLoopPc(rest)])
    /\ UNCHANGED <<INPUT_SEEN, READ_LIST, READ_SEEN, PROCESSING_LIST,
                   LOCK_FLUSH, LAST_DATE_KEY, today, mix, fl, rec, hist>>

\* added = redis.sadd(INPUT_SEEN, String(id)); added === 1 ? rpush : skipped++
api_post_sadd ==
  \E h \in Handlers(sub) :
    /\ h.pc = "api_sadd"
    /\ LET it == Head(h.items)
           rest == Tail(h.items)
           m == StringOf(itemIdOf(it))
           added == sadd(INPUT_SEEN, m)
       IN /\ INPUT_SEEN' = INPUT_SEEN \cup {m}
          /\ sub' = Moved(sub, h,
                       IF added = 1
                       THEN [h EXCEPT !.pc = "api_rpush"]
                       ELSE [h EXCEPT !.items = rest, !.skipped = @ + 1,
                                      !.pc = ApiLoopPc(rest)])
    /\ UNCHANGED <<INPUT_LIST, READ_LIST, READ_SEEN, PROCESSING_LIST,
                   LOCK_FLUSH, LAST_DATE_KEY, today, mix, fl, rec, hist>>

\* redis.rpush(INPUT_LIST, JSON.stringify(it)); accepted++
api_post_rpush ==
  \E h \in Handlers(sub) :
    /\ h.pc = "api_rpush"
    /\ LET it == Head(h.items)
           rest == Tail(h.items)
       IN /\ INPUT_LIST' = rpush(INPUT_LIST, JSON_stringify(it))
          /\ sub' = Moved(sub, h, [h EXCEPT !.items = rest,
                                            !.accepted = @ + 1,
                                            !.pc = ApiLoopPc(rest)])
    /\ UNCHANGED <<INPUT_SEEN, READ_LIST, READ_SEEN, PROCESSING_LIST,
                   LOCK_FLUSH, LAST_DATE_KEY, today, mix, fl, rec, hist>>

\* redis.llen(INPUT_LIST); res.status(201).json({accepted, skipped, total_in_input})
api_post_llen ==
  \E h \in Handlers(sub) :
    /\ h.pc = "api_llen"
    /\ sub' = sub (-) SetToBag({h})
    /\ UNCHANGED <<store, today, mix, fl, rec, hist>>

\* GET ?flush=1 handler; pushed counts toPushAll
\* nread: the length of what the lrange of INPUT_LIST returned (history)
ApiFlStart == [pc |-> "api_get_date", day |-> "d1", rawInput |-> <<>>,
               readIdSet |-> {}, newOnes |-> <<>>, pushed |-> 0,
               result |-> NoResult, snap |-> NoSnap, live |-> FALSE,
               nread |-> 0]

\* flush arrival and checkAndResetDaily: redis.get(LAST_DATE_KEY)
api_flush_get ==
    /\ BagCardinality(fl) < NumFlush
    /\ fl' = fl (+) SetToBag({
                [ApiFlStart EXCEPT !.day = today,
                                   !.pc = IF LAST_DATE_KEY # today
                                          THEN "api_fl_del_input"
                                          ELSE "api_setnx"]})
    /\ hist' = IF hist.track THEN [hist EXCEPT !.stage = "none"] ELSE hist
    /\ UNCHANGED <<store, today, mix, sub, rec>>

\* checkAndResetDaily of a flush request: redis.del(INPUT_LIST, INPUT_SEEN)
api_flush_reset_del ==
  \E h \in Handlers(fl) :
    /\ h.pc = "api_fl_del_input"
    /\ INPUT_LIST' = <<>>
    /\ INPUT_SEEN' = {}
    /\ fl' = Moved(fl, h, [h EXCEPT !.pc = "api_fl_set_date"])
    /\ hist' = IF hist.track THEN [hist EXCEPT !.quiet = FALSE] ELSE hist
    /\ UNCHANGED <<READ_LIST, READ_SEEN, PROCESSING_LIST, LOCK_FLUSH,
                   LAST_DATE_KEY, today, mix, sub, rec>>

\* checkAndResetDaily of a flush request: redis.set(LAST_DATE_KEY, today)
api_flush_reset_set ==
  \E h \in Handlers(fl) :
    /\ h.pc = "api_fl_set_date"
    /\ LAST_DATE_KEY' = h.day
    /\ fl' = Moved(fl, h, [h EXCEPT !.pc = "api_setnx"])
    /\ UNCHANGED <<INPUT_LIST, INPUT_SEEN, READ_LIST, READ_SEEN,
                   PROCESSING_LIST, LOCK_FLUSH, today, mix, sub, rec, hist>>

\* acquireLock: redis.setnx(LOCK_FLUSH, token); 423 when it returns 0
api_acquireLock_setnx ==
  \E h \in Handlers(fl) :
    /\ h.pc = "api_setnx"
    /\ \E token \in Tokens :
         LET ok == setnx(LOCK_FLUSH)
         IN IF ok = 1
            THEN /\ LOCK_FLUSH' = [token |-> token, ttl |-> FALSE]
                 /\ fl' = Moved(fl, h, [h EXCEPT !.pc = "api_pexpire",
                                                 !.live = TRUE])
            ELSE /\ LOCK_FLUSH' = LOCK_FLUSH
                 /\ fl' = fl (-) SetToBag({h})
    /\ UNCHANGED <<INPUT_LIST, INPUT_SEEN, READ_LIST, READ_SEEN,
                   PROCESSING_LIST, LAST_DATE_KEY, today, mix, sub, rec, hist>>

\* acquireLock: redis.pexpire(LOCK_FLUSH, ttlMs)
api_acquireLock_pexpire ==
  \E h \in Handlers(fl) :
    /\ h.pc = "api_pexpire"
    /\ LOCK_FLUSH' = IF LOCK_FLUSH = NoKey THEN NoKey
                     ELSE [LOCK_FLUSH EXCEPT !.ttl = TRUE]
    /\ fl' = Moved(fl, h, [h EXCEPT !.pc = "api_lrange_input",
                                    !.snap = IF hist.track THEN Snapshot
                                             ELSE NoSnap])
    /\ hist' = IF hist.track THEN [hist EXCEPT !.quiet = FALSE] ELSE hist
    /\ UNCHANGED <<INPUT_LIST, INPUT_SEEN, READ_LIST, READ_SEEN,
                   PROCESSING_LIST, LAST_DATE_KEY, today, mix, sub, rec>>

\* rawInput = redis.lrange(INPUT_LIST, 0, -1); empty: {pushed: 0}
api_flush_lrange_input ==
  \E h \in Handlers(fl) :
    /\ h.pc = "api_lrange_input"
    /\ fl' = Moved(fl, h,
                IF INPUT_LIST = <<>>
                THEN [h EXCEPT !.pc = "api_release",
                               !.result = [status |-> 200, pushed |-> 0]]
                ELSE [h EXCEPT !.pc = "api_lrange_read",
                               !.rawInput = INPUT_LIST,
                               !.nread = Len(INPUT_LIST)])
    /\ UNCHANGED <<store, today, mix, sub, rec, hist>>

RECURSIVE ProcessBatch(_, _, _)
\* the inner loop over one batch: acc = [newOnes, readIdSet]; malformed
\* entries are ignored, entries without id get _generated_id = g, entries
\* whose id is in readIdSet are skipped, the others are marked in readIdSet
ProcessBatch(batch, acc, g) ==
    IF batch = <<>> THEN acc
    ELSE LET s == Head(batch)
             it == JSON_parse(s)
             id == itemIdOf(it)
             acc2 == IF ~IsJSON(s) THEN acc
                     ELSE IF id = Null
                     THEN [acc EXCEPT !.newOnes =
                               Append(@, [it EXCEPT !.generated_id = g])]
                     ELSE IF StringOf(id) \in acc.readIdSet THEN acc
                     ELSE [newOnes |-> Append(acc.newOnes, it),
                           readIdSet |-> acc.readIdSet \cup {StringOf(id)}]
         IN ProcessBatch(Tail(batch), acc2, g)

Min(a, b) == IF a < b THEN a ELSE b

RECURSIVE NextChunk(_, _)
\* the chunk loop up to its next store call: the rpush of a batch that has
\* new records, or the del after the last batch
NextChunk(f, g) ==
    IF f.rawInput = <<>> THEN [f EXCEPT !.pc = "api_del_input_list"]
    ELSE LET n == Min(CHUNK_SIZE, Len(f.rawInput))
             batch == SubSeq(f.rawInput, 1, n)
             rest == SubSeq(f.rawInput, n + 1, Len(f.rawInput))
             r == ProcessBatch(batch, [newOnes |-> <<>>,
                                       readIdSet |-> f.readIdSet], g)
             f2 == [f EXCEPT !.rawInput = rest, !.readIdSet = r.readIdSet,
                             !.newOnes = r.newOnes]
         IN IF r.newOnes # <<>> THEN [f2 EXCEPT !.pc = "api_rpush_read"]
            ELSE NextChunk(f2, g)

\* rawRead = redis.lrange(READ_LIST, 0, -1); readIdSet = ids of rawRead
api_flush_lrange_read ==
  \E h \in Handlers(fl) :
    /\ h.pc = "api_lrange_read"
    /\ \E g \in GenIds :
         fl' = Moved(fl, h, NextChunk([h EXCEPT !.readIdSet =
                        {StringOf(x) : x \in IdsOf(READ_LIST)}], g))
    /\ UNCHANGED <<store, today, mix, sub, rec, hist>>

RECURSIVE DropNoId(_)
\* the records of newOnes from the first one that has an id
DropNoId(ones) ==
    IF ones = <<>> THEN <<>>
    ELSE IF itemIdOf(Head(ones)) # Null THEN ones
    ELSE DropNoId(Tail(ones))

\* after a store call of the sadd loop: the next sadd, or the next chunk
AfterSadd(f, ones, g) ==
    IF DropNoId(ones) # <<>>
    THEN [f EXCEPT !.newOnes = DropNoId(ones), !.pc = "api_sadd_read"]
    ELSE NextChunk([f EXCEPT !.newOnes = <<>>], g)

\* redis.rpush(READ_LIST, ...jsons); toPushAll.push(...newOnes)
api_flush_rpush ==
  \E h \in Handlers(fl) :
    /\ h.pc = "api_rpush_read"
    /\ READ_LIST' = READ_LIST \o [i \in 1..Len(h.newOnes) |->
                                     JSON_stringify(h.newOnes[i])]
    /\ \E g \in GenIds :
         fl' = Moved(fl, h, AfterSadd([h EXCEPT !.pushed = @ + Len(h.newOnes)],
                                      h.newOnes, g))
    /\ UNCHANGED <<INPUT_LIST, INPUT_SEEN, READ_SEEN, PROCESSING_LIST,
                   LOCK_FLUSH, LAST_DATE_KEY, today, mix, sub, rec, hist>>

\* if (id) redis.sadd(READ_SEEN, String(id)), for each of newOnes
api_flush_sadd ==
  \E h \in Handlers(fl) :
    /\ h.pc = "api_sadd_read"
    /\ READ_SEEN' = READ_SEEN \cup {StringOf(itemIdOf(Head(h.newOnes)))}
    /\ \E g \in GenIds :
         fl' = Moved(fl, h, AfterSadd(h, Tail(h.newOnes), g))
    /\ UNCHANGED <<INPUT_LIST, INPUT_SEEN, READ_LIST, PROCESSING_LIST,
                   LOCK_FLUSH, LAST_DATE_KEY, today, mix, sub, rec, hist>>

\* redis.del(INPUT_LIST); {message: "Flush complete", pushed}
api_flush_del ==
  \E h \in Handlers(fl) :
    /\ h.pc = "api_del_input_list"
    /\ INPUT_LIST' = <<>>
    /\ fl' = Moved(fl, h, [h EXCEPT !.pc = "api_release",
                                    !.result = [status |-> 200,
                                                pushed |-> h.pushed]])
    /\ UNCHANGED <<INPUT_SEEN, READ_LIST, READ_SEEN, PROCESSING_LIST,
                   LOCK_FLUSH, LAST_DATE_KEY, today, mix, sub, rec, hist>>

\* finally releaseLock: redis.del(LOCK_FLUSH)
api_releaseLock_del ==
  \E h \in Handlers(fl) :
    /\ h.pc = "api_release"
    /\ LOCK_FLUSH' = NoKey
    /\ fl' = AllLost(fl (-) SetToBag({h}))
    /\ hist' = IF hist.track
               THEN [hist EXCEPT !.quiet = TRUE, !.prev = h.result]
               ELSE hist
    /\ UNCHANGED <<INPUT_LIST, INPUT_SEEN, READ_LIST, READ_SEEN,
                   PROCESSING_LIST, LAST_DATE_KEY, today, mix, sub, rec>>

----------------------------------------------------------------------------
(* api/collector.js: the read path (GET without flush), cursor mode and    *)
(* batches mode, and the client that pages through the Read Log            *)

READ_BATCH_SIZE == 200
MAX_BATCH_SIZE == 500
MAX_LIMIT == 1000

Max(a, b) == IF a > b THEN a ELSE b

\* a query parameter: absent (or empty, or no number), or a decimal integer
Absent == [given |-> FALSE, n |-> 0]
Num(k) == [given |-> TRUE, n |-> k]

\* parseInt(p || String(d), 10) || d: NaN and 0 are falsy and give d
ParseIntOr(p, d) ==
    LET v == IF p.given THEN p.n ELSE d
    IN IF v = 0 THEN d ELSE v

\* LRANGE that leaves out the entry at stop
lrange_exclusive(list, start, stop) ==
    LET a == IF start < 0 THEN Max(Len(list) + start, 0) ELSE start
        b == IF stop < 0 THEN Len(list) + stop ELSE Min(stop, Len(list) - 1)
    IN SubSeq(list, a + 1, b)

\* LRANGE key start stop: zero-based, both ends included, negative indices
\* count from the tail, out-of-range indices are clipped
lrange(list, start, stop) ==
    LET a == IF start < 0 THEN Max(Len(list) + start, 0) ELSE start
        b == IF stop < 0 THEN Len(list) + stop ELSE Min(stop, Len(list) - 1)
    IN SubSeq(list, a + 1, b + 1)

RECURSIVE ParsedOrDropped(_)
\* arr.map(JSON.parse, or null when it throws).filter(Boolean)
ParsedOrDropped(arr) ==
    IF arr = <<>> THEN <<>>
    ELSE IF IsJSON(Head(arr))
    THEN <<JSON_parse(Head(arr))>> \o ParsedOrDropped(Tail(arr))
    ELSE ParsedOrDropped(Tail(arr))

\* readSlice(offset, count) on a Read Log
api_readSlice(list, offset, count) ==
    ParsedOrDropped(lrange(list, offset, offset + count - 1))

api_batchSize(q) ==
    Min(Max(ParseIntOr(q.batch_size, READ_BATCH_SIZE), 1), MAX_BATCH_SIZE)

api_cursor(q) == Max(ParseIntOr(q.cursor, 0), 0)

api_limit(q) == Min(Max(ParseIntOr(q.limit, api_batchSize(q)), 1), MAX_LIMIT)

\* batchesParam.split(",").map(parseInt).filter(n => Number.isFinite(n) && n > 0)
api_parts(batches) == SelectSeq(batches, LAMBDA n : n > 0)

\* the queries the clients send
CursorQueries ==
    [cursor : {Absent, Num(-1), Num(0), Num(1), Num(3)},
     limit : {Absent, Num(0), Num(1), Num(2), Num(1001)},
     batch_size : {Absent, Num(2)},
     batches : {<<>>}]

BatchQueries ==
    [cursor : {Absent}, limit : {Absent},
     batch_size : {Absent, Num(0), Num(1), Num(2)},
     batches : {<<1>>, <<2>>, <<1, 3>>, <<0, 2>>}]

\* a read request in progress; got: what the paging client has received in
\* the earlier requests of its session, q0: the first query of the session
ApiReadStart == [pc |-> "api_rd_get_date", items |-> <<>>, day |-> "d1",
                 q |-> [cursor |-> Absent, limit |-> Absent,
                        batch_size |-> Absent, batches |-> <<>>],
                 q0 |-> [cursor |-> Absent, limit |-> Absent,
                         batch_size |-> Absent, batches |-> <<>>],
                 total |-> 0, parts |-> <<>>, result |-> <<>>,
                 out |-> NoResult, got |-> <<>>]

\* GET arrival and checkAndResetDaily: redis.get(LAST_DATE_KEY)
api_get_arrive(q) ==
    /\ BagCardinality(sub) < NumSub
    /\ sub' = sub (+) SetToBag({
                 [ApiReadStart EXCEPT !.q = q, !.q0 = q, !.day = today,
                                      !.pc = IF LAST_DATE_KEY # today
                                             THEN "api_rd_del_input"
                                             ELSE "api_rd_llen"]})
    /\ UNCHANGED <<store, today, mix, fl, rec, hist>>

\* a reset of the read request that deletes the Read Log as the server does
api_get_reset_del_all ==
  \E h \in Handlers(sub) :
    /\ h.pc = "api_rd_del_input"
    /\ INPUT_LIST' = <<>>
    /\ INPUT_SEEN' = {}
    /\ READ_LIST' = <<>>
    /\ READ_SEEN' = {}
    /\ sub' = Moved(sub, h, [h EXCEPT !.pc = "api_rd_set_date"])
    /\ hist' = IF hist.track THEN [hist EXCEPT !.quiet = FALSE] ELSE hist
    /\ UNCHANGED <<PROCESSING_LIST, LOCK_FLUSH, LAST_DATE_KEY, today, mix, fl, rec>>

\* checkAndResetDaily of a read request: redis.del(INPUT_LIST, INPUT_SEEN)
api_get_reset_del ==
  \E h \in Handlers(sub) :
    /\ h.pc = "api_rd_del_input"
    /\ INPUT_LIST' = <<>>
    /\ INPUT_SEEN' = {}
    /\ sub' = Moved(sub, h, [h EXCEPT !.pc = "api_rd_set_date"])
    /\ hist' = IF hist.track THEN [hist EXCEPT !.quiet = FALSE] ELSE hist
    /\ UNCHANGED <<READ_LIST, READ_SEEN, PROCESSING_LIST, LOCK_FLUSH,
                   LAST_DATE_KEY, today, mix, fl, rec>>

\* checkAndResetDaily of a read request: redis.set(LAST_DATE_KEY, today)
api_get_reset_set ==
  \E h \in Handlers(sub) :
    /\ h.pc = "api_rd_set_date"
    /\ LAST_DATE_KEY' = h.day
    /\ sub' = Moved(sub, h, [h EXCEPT !.pc = "api_rd_llen"])
    /\ UNCHANGED <<INPUT_LIST, INPUT_SEEN, READ_LIST, READ_SEEN,
                   PROCESSING_LIST, LOCK_FLUSH, today, mix, fl, rec, hist>>

\* total = redis.llen(READ_LIST); then batches mode or cursor mode
api_get_llen ==
  \E h \in Handlers(sub) :
    /\ h.pc = "api_rd_llen"
    /\ LET total == Len(READ_LIST)
           parts == api_parts(h.q.batches)
       IN sub' = Moved(sub, h,
                    IF h.q.batches = <<>>
                    THEN [h EXCEPT !.total = total, !.pc = "api_rd_cursor"]
                    ELSE IF parts = <<>>
                    THEN [h EXCEPT !.total = total, !.pc = "api_rd_done",
                                   !.out = [status |-> 200, batches |-> <<>>,
                                            total |-> total]]
                    ELSE [h EXCEPT !.total = total, !.parts = parts,
                                   !.pc = "api_rd_batch"])
    /\ UNCHANGED <<store, today, mix, fl, rec, hist>>

\* batches mode: slice = readSlice((idx - 1) * batchSize, batchSize)
api_get_batch ==
  \E h \in Handlers(sub) :
    /\ h.pc = "api_rd_batch"
    /\ LET idx == Head(h.parts)
           batchSize == api_batchSize(h.q)
           slice == api_readSlice(READ_LIST, (idx - 1) * batchSize, batchSize)
           result == Append(h.result, [idx |-> idx, count |-> Len(slice),
                                       posts |-> slice])
       IN sub' = Moved(sub, h,
                    IF Tail(h.parts) # <<>>
                    THEN [h EXCEPT !.parts = Tail(h.parts), !.result = result]
                    ELSE [h EXCEPT !.parts = <<>>, !.result = result,
                                   !.pc = "api_rd_done",
                                   !.out = [status |-> 200, batches |-> result,
                                            total |-> h.total]])
    /\ UNCHANGED <<store, today, mix, fl, rec, hist>>

\* cursor mode: slice = readSlice(cursor, limit); {record, cursor, total}
api_get_cursor ==
  \E h \in Handlers(sub) :
    /\ h.pc = "api_rd_cursor"
    /\ LET cursor == api_cursor(h.q)
           slice == api_readSlice(READ_LIST, cursor, api_limit(h.q))
       IN sub' = Moved(sub, h,
                    [h EXCEPT !.pc = "api_rd_done",
                              !.out = [status |-> 200, record |-> slice,
                                       cursor |-> cursor + Len(slice),
                                       total |-> h.total]])
    /\ UNCHANGED <<store, today, mix, fl, rec, hist>>

\* the client has the answer and sends nothing more
api_get_end ==
  \E h \in Handlers(sub) :
    /\ h.pc = "api_rd_done"
    /\ sub' = sub (-) SetToBag({h})
    /\ UNCHANGED <<store, today, mix, fl, rec, hist>>

\* the paging client asks for the next page: same limit, cursor = the next
\* cursor of the answer, as long as that is before total
api_get_next ==
  \E h \in Handlers(sub) :
    /\ h.pc = "api_rd_done"
    /\ h.q.batches = <<>>
    /\ h.out.cursor < h.out.total
    /\ sub' = Moved(sub, h,
                 [h EXCEPT !.q.cursor = Num(h.out.cursor),
                           !.got = @ \o h.out.record,
                           !.out = NoResult,
                           !.day = today,
                           !.pc = IF LAST_DATE_KEY # today
                                  THEN "api_rd_del_input"
                                  ELSE "api_rd_llen"])
    /\ UNCHANGED <<store, today, mix, fl, rec, hist>>

\* someone writes a placeholder that is no JSON into the empty Read Log by
\* hand (the case readListLooksValid and readSlice provide for)
ManualPlaceholder ==
    /\ READ_LIST = <<>>
    /\ TotalStored + Pending < MaxStored
    /\ READ_LIST' = <<[raw |-> "placeholder"]>>
    /\ hist' = IF hist.track THEN [hist EXCEPT !.quiet = FALSE] ELSE hist
    /\ UNCHANGED <<INPUT_LIST, INPUT_SEEN, READ_SEEN, PROCESSING_LIST,
                   LOCK_FLUSH, LAST_DATE_KEY, today, mix, sub, fl, rec>>

----------------------------------------------------------------------------
(* membit-collector-server.js: GET /collector *)

RECURSIVE ParsedOrWrapped(_)
\* arr.map(JSON.parse, or { text: s } when it throws).filter(Boolean)
ParsedOrWrapped(arr) ==
    IF arr = <<>> THEN <<>>
    ELSE <<ParseOrWrap(Head(arr))>> \o ParsedOrWrapped(Tail(arr))

\* readSlice(offset, count) of the server
readSlice(list, offset, count) ==
    ParsedOrWrapped(lrange(list, offset, offset + count - 1))

batchNumOf(q) == Max(ParseIntOr(q.batch, 1), 1)

batchSizeOf(q) ==
    Min(Max(ParseIntOr(q.batch_size, READ_BATCH_SIZE), 1), MAX_BATCH_SIZE)

\* Math.ceil(total / batchSize), 0 for an empty Read Log
batchCountOf(total, batchSize) ==
    IF total > 0 THEN (total + batchSize - 1) \div batchSize ELSE 0

\* the queries the clients send: ?batch=..&batch_size=..
GetQueries ==
    [batch : {Absent, Num(0), Num(1), Num(2), Num(3)},
     batch_size : {Absent, Num(1), Num(2)}]

GetStart == [pc |-> "rd_llen", items |-> <<>>, day |-> "d1",
             q |-> [batch |-> Absent, batch_size |-> Absent],
             total |-> 0, out |-> NoResult]

\* GET /collector arrival and checkAndResetDaily: redis.get(LAST_DATE_KEY)
getCollector_get(q) ==
    /\ BagCardinality(sub) < NumSub
    /\ sub' = sub (+) SetToBag({
                 [GetStart EXCEPT !.q = q, !.day = today,
                                  !.pc = IF LAST_DATE_KEY # today
                                         THEN "rd_del" ELSE "rd_llen"]})
    /\ UNCHANGED <<store, today, mix, fl, rec, hist>>

\* checkAndResetDaily of a read: redis.del of the four keys
getCollector_reset_del ==
  \E h \in Handlers(sub) :
    /\ h.pc = "rd_del"
    /\ INPUT_LIST' = <<>>
    /\ INPUT_SEEN' = {}
    /\ READ_LIST' = <<>>
    /\ READ_SEEN' = {}
    /\ sub' = Moved(sub, h, [h EXCEPT !.pc = "rd_set_date"])
    /\ hist' = IF hist.track THEN [hist EXCEPT !.quiet = FALSE] ELSE hist
    /\ UNCHANGED <<PROCESSING_LIST, LOCK_FLUSH, LAST_DATE_KEY, today, mix, fl, rec>>

\* checkAndResetDaily of a read: redis.set(LAST_DATE_KEY, today)
getCollector_reset_set ==
  \E h \in Handlers(sub) :
    /\ h.pc = "rd_set_date"
    /\ LAST_DATE_KEY' = h.day
    /\ sub' = Moved(sub, h, [h EXCEPT !.pc = "rd_llen"])
    /\ UNCHANGED <<INPUT_LIST, INPUT_SEEN, READ_LIST, READ_SEEN,
                   PROCESSING_LIST, LOCK_FLUSH, today, mix, fl, rec, hist>>

\* total = redis.llen(READ_LIST); the two answers that read no slice
getCollector_llen ==
  \E h \in Handlers(sub) :
    /\ h.pc = "rd_llen"
    /\ LET total == Len(READ_LIST)
           batchCount == batchCountOf(total, batchSizeOf(h.q))
           batch == [i \in 1..batchCount |-> i]
       IN sub' = Moved(sub, h,
                    IF batchCount = 0
                    THEN [h EXCEPT !.total = total, !.pc = "rd_done",
                                   !.out = [status |-> 200, batches |-> <<>>,
                                            total |-> total, batch_count |-> 0,
                                            batch |-> <<>>]]
                    ELSE IF batchNumOf(h.q) > batchCount
                    THEN [h EXCEPT !.total = total, !.pc = "rd_done",
                                   !.out = [status |-> 200,
                                            batches |-> <<[idx |-> batchNumOf(h.q),
                                                           count |-> 0,
                                                           posts |-> <<>>]>>,
                                            total |-> total,
                                            batch_count |-> batchCount,
                                            batch |-> batch]]
                    ELSE [h EXCEPT !.total = total, !.pc = "rd_slice"])
    /\ UNCHANGED <<store, today, mix, fl, rec, hist>>

\* slice = readSlice((batchNum - 1) * batchSize, batchSize) and the answer
getCollector_readSlice ==
  \E h \in Handlers(sub) :
    /\ h.pc = "rd_slice"
    /\ LET batchSize == batchSizeOf(h.q)
           batchCount == batchCountOf(h.total, batchSize)
           slice == readSlice(READ_LIST, (batchNumOf(h.q) - 1) * batchSize,
                              batchSize)
       IN sub' = Moved(sub, h,
                    [h EXCEPT !.pc = "rd_done",
                              !.out = [status |-> 200,
                                       batches |-> <<[idx |-> batchNumOf(h.q),
                                                      count |-> Len(slice),
                                                      posts |-> slice]>>,
                                       total |-> h.total,
                                       batch_count |-> batchCount,
                                       batch |-> [i \in 1..batchCount |-> i]]])
    /\ UNCHANGED <<store, today, mix, fl, rec, hist>>

\* the client has the answer
getCollector_end ==
  \E h \in Handlers(sub) :
    /\ h.pc = "rd_done"
    /\ sub' = sub (-) SetToBag({h})
    /\ UNCHANGED <<store, today, mix, fl, rec, hist>>

----------------------------------------------------------------------------
(* api/mix.js: the gist-backed handler.  Items are kept in a process-wide    *)
(* cache (globalThis._cacheData) and in data.json of a gist; requests are    *)
(* served one at a time, the clock may advance between two awaits.           *)

CACHE_DURATION == 10 * 60 * 1000

MaxTicks == 3        \* advances of the clock in one run
MaxMixItems == 1     \* items per POST body of api/mix.js

M1 == [pet_id |-> "a", dna |-> [dna1id |-> "x", dna2id |-> "y"]]
M2 == [pet_id |-> "b", dna |-> [dna1id |-> "x", dna2id |-> "y"]]
M3 == [pet_id |-> "c", dna |-> [dna1id |-> "y", dna2id |-> "y"]]
Pets == {M1, M2, M3}

MixBodies == SeqsUpTo(Pets, MaxMixItems)

NoReq == [none |-> TRUE]

\* globalThis._cacheData as the module initialises it, an empty data.json,
\* a clock far from the epoch, no request in progress; acked: the items a
\* 202 answer has reported as added (history)
MixStart == [pc |-> "idle",
             cache |-> [data |-> <<>>, lastUpdate |-> 0, gistSha |-> ""],
             gist |-> [data |-> <<>>, sha |-> "sha"],
             now |-> CACHE_DURATION + 1, ticks |-> 0,
             req |-> NoReq, last |-> NoResult, acked |-> {}]

\* Date.now() advances: by a moment, or by more than the cache duration
mix_Tick ==
    /\ mix.ticks < MaxTicks
    /\ \E d \in {1, CACHE_DURATION + 1} :
         mix' = [mix EXCEPT !.now = @ + d, !.ticks = @ + 1]
    /\ UNCHANGED <<store, today, sub, fl, rec, hist>>

\* the cached copy is returned: younger than CACHE_DURATION and not empty
CacheValid(m) ==
    /\ m.now - m.cache.lastUpdate < CACHE_DURATION
    /\ m.cache.data # <<>>

\* the cache is older than CACHE_DURATION
CacheExpired(m) == m.now - m.cache.lastUpdate > CACHE_DURATION

\* loadData: the cache if it is valid, else data.json of the gist, which
\* then replaces the cache
loadData(m) ==
    IF CacheValid(m) THEN m
    ELSE [m EXCEPT !.cache = [data |-> m.gist.data, gistSha |-> m.gist.sha,
                              lastUpdate |-> m.now]]

\* saveData: PATCH of the gist, then the cache is set to what was pushed
saveData(m, newArray, sha) ==
    [m EXCEPT !.gist = [data |-> newArray, sha |-> @.sha],
              !.cache = [data |-> newArray, gistSha |-> sha,
                         lastUpdate |-> m.now]]

\* existing.some(x => x.pet_id === it.pet_id || both dna ids equal)
isDup(existing, it) ==
    \E i \in 1..Len(existing) :
        \/ existing[i].pet_id = it.pet_id
        \/ /\ existing[i].dna.dna1id = it.dna.dna1id
           /\ existing[i].dna.dna2id = it.dna.dna2id

\* items.filter(it => !isDup) in order (added), checked against existing
RECURSIVE AddedOf(_, _)
AddedOf(existing, items) ==
    IF items = <<>> THEN <<>>
    ELSE IF isDup(existing, Head(items)) THEN AddedOf(existing, Tail(items))
    ELSE <<Head(items)>> \o AddedOf(existing, Tail(items))

\* POST: body check, loadData, the split into added and skipped; 400 for an
\* empty body and 200 when nothing is new
mix_post_loadData(items) ==
    /\ mix.pc = "idle"
    /\ IF items = <<>>
       THEN mix' = [mix EXCEPT !.last = [status |-> 400]]
       ELSE LET m == loadData(mix)
                existing == m.cache.data
                added == AddedOf(existing, items)
            IN IF added = <<>>
               THEN mix' = [m EXCEPT !.last = [status |-> 200]]
               ELSE mix' = [m EXCEPT !.pc = "post_merged",
                               !.req = [added |-> added,
                                        merged |-> existing \o added,
                                        sha |-> m.cache.gistSha,
                                        expired |-> CacheExpired(mix)]]
    /\ UNCHANGED <<store, today, sub, fl, rec, hist>>

\* POST: saveData(merged, sha) and 201 if the cache has expired, else the
\* merged array goes into the cache, 202 "Cached until next push"
mix_post_push_or_cache ==
    /\ mix.pc = "post_merged"
    /\ IF CacheExpired(mix)
       THEN mix' = [saveData(mix, mix.req.merged, mix.req.sha) EXCEPT
                       !.pc = "idle", !.req = NoReq,
                       !.last = [status |-> 201]]
       ELSE mix' = [mix EXCEPT !.cache.data = mix.req.merged,
                               !.pc = "idle", !.req = NoReq,
                               !.last = [status |-> 202],
                               !.acked = @ \cup {mix.req.added[i] :
                                                    i \in 1..Len(mix.req.added)}]
    /\ UNCHANGED <<store, today, sub, fl, rec, hist>>

\* GET: loadData
mix_get_loadData ==
    /\ mix.pc = "idle"
    /\ mix' = [loadData(mix) EXCEPT
                  !.pc = "get_loaded",
                  !.req = [data |-> loadData(mix).cache.data,
                           expired |-> CacheExpired(mix)]]
    /\ UNCHANGED <<store, today, sub, fl, rec, hist>>

\* GET: auto-push of the cache if it has expired; 200 with the data
mix_get_autopush ==
    /\ mix.pc = "get_loaded"
    /\ LET m == IF CacheExpired(mix)
                THEN saveData(mix, mix.cache.data, mix.cache.gistSha)
                ELSE mix
       IN mix' = [m EXCEPT !.pc = "idle", !.req = NoReq,
                           !.last = [status |-> 200, pushed |-> CacheExpired(mix)]]
    /\ UNCHANGED <<store, today, sub, fl, rec, hist>>

\* PUT with the right token: force-push of the cache, 400 when the cache
\* holds no data or no sha
mix_put ==
    /\ mix.pc = "idle"
    /\ IF mix.cache.data = <<>> \/ mix.cache.gistSha = ""
       THEN mix' = [mix EXCEPT !.last = [status |-> 400]]
       ELSE mix' = [saveData(mix, mix.cache.data, mix.cache.gistSha) EXCEPT
                       !.last = [status |-> 200, pushed |-> TRUE]]
    /\ UNCHANGED <<store, today, sub, fl, rec, hist>>

----------------------------------------------------------------------------
(* Specifications *)

InitStore ==
    /\ INPUT_LIST = <<>>
    /\ INPUT_SEEN = {}
    /\ READ_LIST = <<>>
    /\ READ_SEEN = {}
    /\ PROCESSING_LIST = <<>>
    /\ LOCK_FLUSH = NoKey
    /\ today = "d1"
    /\ LAST_DATE_KEY = "d1"
    /\ sub = EmptyBag
    /\ fl = EmptyBag
    /\ rec = RecOff
    /\ mix = MixStart

NoHist == [track |-> FALSE, quiet |-> FALSE, prev |-> NoResult,
           stage |-> "none", crashes |-> 0, crash |-> NoSnap,
           fails |-> 0, fail |-> NoItem]

\* a store on which the daily reset of today has run, no request in progress
Init == InitStore /\ hist = NoHist

\* the same, with the history of flushes and crashes recorded
InitSeq == InitStore /\ hist = [NoHist EXCEPT !.track = TRUE]

Bodies == SeqsUpTo(Posts, MaxItems)

AllIdle == sub = EmptyBag /\ fl = EmptyBag /\ rec.pc = "off"

SubmitStep ==
    \/ postCollector_rpush_noid
    \/ postCollector_sismember
    \/ postCollector_sadd
    \/ postCollector_rpush
    \/ postCollector_llen

FlushStep ==
    \/ acquireLock_pexpire
    \/ ensureReadStructures_llen1
    \/ readListLooksValid_lindex
    \/ ensureReadStructures_llen2
    \/ ensureReadStructures_lrange
    \/ ensureReadStructures_rpush
    \/ ensureReadStructures_sadd
    \/ ensureReadStructures_del_input
    \/ flushAll_rpoplpush
    \/ flushAll_rpush_noid
    \/ flushAll_sadd
    \/ flushAll_rpush
    \/ flushAll_lrem
    \/ releaseLock_del

\* Concurrent handlers, no crash, every flush shorter than the lock's ttl
Next ==
    \/ \E items \in Bodies : checkAndResetDaily_get(items)
    \/ SubmitStep
    \/ acquireLock_setnx
    \/ FlushStep

Spec == Init /\ [][Next]_vars

ResetStep ==
    \/ checkAndResetDaily_del
    \/ checkAndResetDaily_set

\* One request at a time, each running to completion, over midnight
NextSeq ==
    \/ \E items \in Bodies : AllIdle /\ checkAndResetDaily_get(items)
    \/ ResetStep
    \/ SubmitStep
    \/ AllIdle /\ acquireLock_setnx
    \/ FlushStep
    \/ AllIdle /\ NewDay

SpecSeq == InitSeq /\ [][NextSeq]_vars

\* One request at a time, within one day, in one server process that can
\* crash during a flush; the lock of a dead holder runs out
NextCrash ==
    \/ \E items \in Bodies : AllIdle /\ checkAndResetDaily_get(items)
    \/ SubmitStep
    \/ AllIdle /\ acquireLock_setnx
    \/ FlushStep
    \/ Crash
    \/ recoverProcessingList_llen
    \/ recoverProcessingList_rpop
    \/ recoverProcessingList_lpush
    \/ AllIdle /\ LockExpire

SpecCrash == InitSeq /\ [][NextCrash]_vars

\* Submissions one at a time, concurrent flush requests, and a flush may
\* outlive the lock's ttl
NextTTL ==
    \/ \E items \in Bodies : /\ AllIdle
                             /\ TotalStored + Len(items) <= MaxStoredTTL
                             /\ checkAndResetDaily_get(items)
    \/ SubmitStep
    \/ sub = EmptyBag /\ acquireLock_setnx
    \/ FlushStep
    \/ LockExpire

SpecTTL == Init /\ [][NextTTL]_vars

\* no request in progress; the startup task is not in the middle of its loop
Serving == sub = EmptyBag /\ fl = EmptyBag /\ rec.pc \in {"off", "llen"}

\* Two server instances on one store: requests one at a time; when the
\* instance running a flush crashes, the other one goes on serving requests
\* until the crashed one is restarted and runs its startup task
NextMulti ==
    \/ \E items \in Bodies : Serving /\ checkAndResetDaily_get(items)
    \/ SubmitStep
    \/ Serving /\ acquireLock_setnx
    \/ FlushStep
    \/ Crash
    \/ Serving /\ recoverProcessingList_llen
    \/ recoverProcessingList_rpop
    \/ recoverProcessingList_lpush
    \/ Serving /\ LockExpire

SpecMulti == InitSeq /\ [][NextMulti]_vars

\* Concurrent submissions over midnight, no flush
NextReset ==
    \/ \E items \in Bodies : checkAndResetDaily_get(items)
    \/ ResetStep
    \/ SubmitStep
    \/ NewDay

SpecReset == Init /\ [][NextReset]_vars

\* One submission at a time and one flush at a time, the submission
\* concurrent with the flush, over midnight
NextResetFlush ==
    \/ \E items \in Bodies : sub = EmptyBag /\ checkAndResetDaily_get(items)
    \/ ResetStep
    \/ SubmitStep
    \/ fl = EmptyBag /\ acquireLock_setnx
    \/ FlushStep
    \/ NewDay

SpecResetFlush == Init /\ [][NextResetFlush]_vars

ApiSubmitStep ==
    \/ api_checkAndResetDaily_del
    \/ api_checkAndResetDaily_set
    \/ api_post_rpush_noid
    \/ api_post_sadd
    \/ api_post_rpush
    \/ api_post_llen

ApiFlushStep ==
    \/ api_flush_reset_del
    \/ api_flush_reset_set
    \/ api_acquireLock_setnx
    \/ api_acquireLock_pexpire
    \/ api_flush_lrange_input
    \/ api_flush_lrange_read
    \/ api_flush_rpush
    \/ api_flush_sadd
    \/ api_flush_del
    \/ api_releaseLock_del

\* api/collector.js alone on the store, one request at a time, over midnight
NextApi ==
    \/ \E items \in Bodies : AllIdle /\ api_checkAndResetDaily_get(items)
    \/ ApiSubmitStep
    \/ AllIdle /\ api_flush_get
    \/ ApiFlushStep
    \/ AllIdle /\ NewDay

SpecApi == InitSeq /\ [][NextApi]_vars

ApiReadStep ==
    \/ api_get_reset_del
    \/ api_get_reset_set
    \/ api_get_llen
    \/ api_get_batch
    \/ api_get_cursor
    \/ api_get_end
    \/ api_get_next

\* api/collector.js with its read path, one request at a time, over
\* midnight, on a Read Log that can hold a hand-written placeholder
NextApiRead ==
    \/ \E items \in Bodies \ {<<>>} :
          AllIdle /\ api_checkAndResetDaily_get(items)
    \/ ApiSubmitStep
    \/ AllIdle /\ api_flush_get
    \/ ApiFlushStep
    \/ \E q \in CursorQueries \cup BatchQueries : AllIdle /\ api_get_arrive(q)
    \/ ApiReadStep
    \/ AllIdle /\ NewDay
    \/ AllIdle /\ ManualPlaceholder

SpecApiRead == InitSeq /\ [][NextApiRead]_vars

GetStep ==
    \/ getCollector_reset_del
    \/ getCollector_reset_set
    \/ getCollector_llen
    \/ getCollector_readSlice
    \/ getCollector_end

\* The server with its read path, one request at a time, over midnight, on
\* a Read Log that can hold a hand-written placeholder
NextRead ==
    \/ \E items \in Bodies \ {<<>>} :
          AllIdle /\ checkAndResetDaily_get(items)
    \/ ResetStep
    \/ SubmitStep
    \/ AllIdle /\ acquireLock_setnx
    \/ FlushStep
    \/ ensureReadStructures_del_read
    \/ \E q \in GetQueries : AllIdle /\ getCollector_get(q)
    \/ GetStep
    \/ AllIdle /\ NewDay
    \/ AllIdle /\ ManualPlaceholder

SpecRead == InitSeq /\ [][NextRead]_vars

BadBodyStep ==
    \/ postCollector_badBody_del
    \/ postCollector_badBody_set
    \/ postCollector_400

\* One request at a time over midnight, with submissions whose body is no
\* array among them
NextBody ==
    \/ \E items \in Bodies : AllIdle /\ checkAndResetDaily_get(items)
    \/ ResetStep
    \/ SubmitStep
    \/ AllIdle /\ postCollector_badBody_get
    \/ BadBodyStep
    \/ AllIdle /\ acquireLock_setnx
    \/ FlushStep
    \/ AllIdle /\ NewDay

SpecBody == InitSeq /\ [][NextBody]_vars

\* Flush requests with and without the right secret arriving at any time,
\* also while a flush holds the lock; submissions between them
NextAuth ==
    \/ \E items \in Bodies : sub = EmptyBag /\ checkAndResetDaily_get(items)
    \/ SubmitStep
    \/ acquireLock_setnx
    \/ FlushStep
    \/ postFlush_unauthorized
    \/ postFlush_locked
    \/ postFlush_answer

SpecAuth == Init /\ [][NextAuth]_vars

FailStep ==
    \/ flushAll_sadd_throws
    \/ flushAll_rpush_throws
    \/ flushAll_rpush_noid_throws
    \/ flushAll_lpush

\* One request at a time, within one day, with store calls of the drain
\* loop that throw
NextFail ==
    \/ \E items \in Bodies : AllIdle /\ checkAndResetDaily_get(items)
    \/ SubmitStep
    \/ AllIdle /\ acquireLock_setnx
    \/ FlushStep
    \/ FailStep

SpecFail == InitSeq /\ [][NextFail]_vars

\* One request at a time, within one day, with store calls of acquireLock
\* and releaseLock that throw; a lock with a time-to-live runs out
NextLockFail ==
    \/ \E items \in Bodies : AllIdle /\ checkAndResetDaily_get(items)
    \/ SubmitStep
    \/ AllIdle /\ acquireLock_setnx
    \/ FlushStep
    \/ AllIdle /\ acquireLock_setnx_throws
    \/ acquireLock_pexpire_throws
    \/ releaseLock_del_throws
    \/ AllIdle /\ postFlush_locked
    \/ postFlush_answer
    \/ AllIdle /\ LockExpire

SpecLockFail == InitSeq /\ [][NextLockFail]_vars

\* One request at a time, within one day, with store calls of flushAll that
\* throw, and a failure of sadd that may persist
NextPersist ==
    \/ \E items \in Bodies : AllIdle /\ checkAndResetDaily_get(items)
    \/ SubmitStep
    \/ AllIdle /\ acquireLock_setnx
    \/ FlushStep
    \/ FailStep
    \/ flushAll_sadd_keeps_throwing
    \/ flushAll_rpoplpush_throws

\* a flush handler in progress takes its next step, whatever the store
\* answers
FlushProgress ==
    \/ FlushStep
    \/ FailStep
    \/ flushAll_sadd_keeps_throwing
    \/ flushAll_rpoplpush_throws

\* the event loop runs every handler that has a step to take
SpecPersist == InitSeq /\ [][NextPersist]_vars /\ WF_vars(FlushProgress)

\* the same with every store failure transient
SpecFailFair ==
    InitSeq /\ [][NextFail \/ flushAll_rpoplpush_throws]_vars
            /\ WF_vars(FlushStep \/ FailStep \/ flushAll_rpoplpush_throws)

\* One request at a time, within one day, with store calls of the bootstrap
\* loop and of the drain loop that throw
NextBootFail ==
    \/ NextFail
    \/ ensureReadStructures_rpush_throws
    \/ ensureReadStructures_sadd_throws

SpecBootFail == InitSeq /\ [][NextBootFail]_vars

\* Submissions one at a time, within one day, no flush, with an rpush to
\* INPUT_LIST that throws
NextSubFail ==
    \/ \E items \in Bodies : AllIdle /\ checkAndResetDaily_get(items)
    \/ SubmitStep
    \/ postCollector_rpush_throws

SpecSubFail == InitSeq /\ [][NextSubFail]_vars

\* api/collector.js with submissions and flushes that run concurrently,
\* within one day
NextApiConc ==
    \/ \E items \in Bodies : api_checkAndResetDaily_get(items)
    \/ api_post_rpush_noid
    \/ api_post_sadd
    \/ api_post_rpush
    \/ api_post_llen
    \/ api_flush_get
    \/ api_acquireLock_setnx
    \/ api_acquireLock_pexpire
    \/ api_flush_lrange_input
    \/ api_flush_lrange_read
    \/ api_flush_rpush
    \/ api_flush_sadd
    \/ api_flush_del
    \/ api_releaseLock_del

SpecApiConc == Init /\ [][NextApiConc]_vars

\* api/mix.js: requests one at a time, the clock advancing at any moment
NextMix ==
    \/ \E items \in MixBodies : mix_post_loadData(items)
    \/ mix_post_push_or_cache
    \/ mix_get_loadData
    \/ mix_get_autopush
    \/ mix_put
    \/ mix_Tick

SpecMix == Init /\ [][NextMix]_vars

----------------------------------------------------------------------------
(* Properties *)

\* C1: in every reachable state READ_LIST holds no two records with the same
\* identifier (rest_id ?? id), under any interleaving of submissions and
\* flush requests.
C1_ReadLogUnique == \A x \in IdsOf(READ_LIST) : CountId(READ_LIST, x) = 1

\* C2: a flush crashes between two store calls of flushAll; after startup
\* recovery and the next complete flush every record that was in INPUT_LIST
\* or PROCESSING_LIST at the crash is in READ_LIST exactly once (identified
\* records by identifier, records without identifier by count).
C2_CrashExactlyOnce ==
    (hist.stage = "flushed" /\ hist.crash.at \in InFlushAll \ {"llen1"}) =>
        /\ \A x \in IdsOf(hist.crash.INPUT_LIST \o hist.crash.PROCESSING_LIST) :
               CountId(READ_LIST, x) = 1
        /\ CountNoId(READ_LIST) =
               CountNoId(hist.crash.start.READ_LIST)
               + CountNoId(hist.crash.start.INPUT_LIST)
               + CountNoId(hist.crash.start.PROCESSING_LIST)

\* C3: a flush that starts with one entry in PROCESSING_LIST and an empty
\* INPUT_LIST moves the entry back and promotes it: when flushAll returns,
\* PROCESSING_LIST is empty, the entry's record is in READ_LIST and the
\* result is flushed = 1.
C3_FlushRecoversInFlight ==
    \A h \in Handlers(fl) :
        (/\ h.pc = "release"
         /\ h.snap # NoSnap
         /\ Len(h.snap.PROCESSING_LIST) = 1
         /\ h.snap.INPUT_LIST = <<>>
         /\ rec.pc \in {"off", "llen"}
         /\ hist.stage = "crashed")
        => /\ PROCESSING_LIST = <<>>
           /\ h.result.flushed = 1
           /\ \E i \in 1..Len(READ_LIST) :
                  [JSON_parse(READ_LIST[i]) EXCEPT !.generated_id = Null]
                      = JSON_parse(h.snap.PROCESSING_LIST[1])


\* C4 (as stated): at most one flush handler at a time is executing flushAll,
\* also when a holder outlives the lock's time-to-live and another request
\* acquires the expired lock.
InFlushAllNow(h) == h.pc \in InFlushAll

C4_MutualExclusion == CountOf(fl, InFlushAllNow) <= 1

\* C4 (amended): at most one handler between acquireLock and releaseLock has
\* its lock key still in the store, and when there is none the key is absent
\* or left by a release of a handler that had lost it; a handler whose key
\* expired or was deleted by another handler's release may overlap the holder.
HoldsLiveKey(h) == h.live

C4_OneLiveHolder ==
    /\ CountOf(fl, HoldsLiveKey) <= 1
    /\ CountOf(fl, HoldsLiveKey) = 1 => LOCK_FLUSH # NoKey

\* C4 witness: a handler that lost its key is still in flushAll while the
\* handler that acquired the lock after it is in flushAll too
C4_Overlap ==
    \E h1, h2 \in Handlers(fl) :
        /\ h1.live /\ ~h2.live
        /\ h1.pc \in InFlushAll /\ h2.pc \in InFlushAll


RECURSIVE SubmitRule(_, _, _)
\* the submission rule of section 4.1 applied to the items in order:
\* st = [list, seen, accepted, skipped], readSeen the read-seen set
SubmitRule(items, readSeen, st) ==
    IF items = <<>> THEN st
    ELSE LET it == Head(items)
             x == itemIdOf(it)
             st2 == IF x = Null
                    THEN [st EXCEPT !.list = Append(@, JSON_stringify(it)),
                                    !.accepted = @ + 1]
                    ELSE IF x \in readSeen \/ x \in st.seen
                    THEN [st EXCEPT !.skipped = @ + 1]
                    ELSE [st EXCEPT !.seen = @ \cup {x},
                                    !.list = Append(@, JSON_stringify(it)),
                                    !.accepted = @ + 1]
         IN SubmitRule(Tail(items), readSeen, st2)

\* a submission handler that has handled all its items
SubDone(h) == h.pc \in {"llen", "api_llen"} /\ h.snap # NoSnap

\* C5: a submission handles its records in order by the rule: identifier in
\* read-seen: skipped, INPUT_LIST and INPUT_SEEN untouched; else identifier in
\* staging-seen: skipped; else the identifier is added to INPUT_SEEN, one
\* entry is appended to INPUT_LIST and the record is accepted.  The counts
\* and the store after the last record are those of the rule.
C5_SubmissionRule ==
    \A h \in Handlers(sub) :
        SubDone(h) =>
            LET r == SubmitRule(h.body, h.snap.READ_SEEN,
                                [list |-> h.snap.INPUT_LIST,
                                 seen |-> h.snap.INPUT_SEEN,
                                 accepted |-> 0, skipped |-> 0])
            IN /\ INPUT_LIST = r.list
               /\ INPUT_SEEN = r.seen
               /\ h.accepted = r.accepted
               /\ h.skipped = r.skipped

\* number of records of a body whose identifier is in the set ids
CountIn(body, ids) ==
    Cardinality({i \in 1..Len(body) : itemIdOf(body[i]) \in ids})

\* C6: once identifier x is in the Read Log by a completed flush, a later
\* submission counts every record with identifier x as skipped and appends
\* none of them to INPUT_LIST; a later flush reports no record as flushed
\* for x and leaves exactly one record with identifier x in READ_LIST.
C6_ConfirmedStaysOnce ==
    /\ \A h \in Handlers(sub) :
           (h.pc = "llen" /\ h.snap # NoSnap) =>
               LET conf == IdsOf(h.snap.READ_LIST)
                   n == CountIn(h.body, conf)
               IN /\ h.skipped >= n
                  /\ h.accepted <= Len(h.body) - n
                  /\ \A x \in conf :
                         CountId(INPUT_LIST, x) = CountId(h.snap.INPUT_LIST, x)
    /\ \A h \in Handlers(fl) :
           (h.pc = "release" /\ h.snap # NoSnap) =>
               LET conf == IdsOf(h.snap.READ_LIST)
                   fresh == Cardinality({i \in 1..Len(h.snap.INPUT_LIST) :
                               IdOfEntry(h.snap.INPUT_LIST[i]) \notin conf})
               IN /\ h.result.flushed <= fresh
                  /\ \A x \in conf : CountId(READ_LIST, x) = 1

\* C6 witness (Scenario C): a record whose identifier is already in the Read
\* Log was submitted alone and the answer is accepted 0, skipped 1
C6_ScenarioC ==
    \E h \in Handlers(sub) :
        /\ h.pc = "llen" /\ h.snap # NoSnap
        /\ Len(h.body) = 1
        /\ itemIdOf(h.body[1]) \in IdsOf(h.snap.READ_LIST)
        /\ h.accepted = 0 /\ h.skipped = 1

\* C7: a flush that runs to completion right after a completed flush, with
\* no submission in between, reports flushed = 0 and leaves READ_LIST,
\* READ_SEEN, INPUT_LIST and PROCESSING_LIST as it found them.
C7_FlushIdempotent ==
    \A h \in Handlers(fl) :
        (h.pc = "release" /\ h.snap # NoSnap /\ h.snap.quiet) =>
            /\ h.result.flushed = 0
            /\ READ_LIST = h.snap.READ_LIST
            /\ READ_SEEN = h.snap.READ_SEEN
            /\ INPUT_LIST = h.snap.INPUT_LIST
            /\ PROCESSING_LIST = h.snap.PROCESSING_LIST

\* C7 witness: the second of two flushes in a row has computed its result and
\* the first one had promoted records
C7_SecondFlush ==
    \E h \in Handlers(fl) :
        /\ h.pc = "release" /\ h.snap # NoSnap /\ h.snap.quiet
        /\ h.snap.prev.flushed > 0
        /\ h.result.flushed = 0

\* a flush that found READ_LIST empty and INPUT_LIST not
Bootstrapping(h) ==
    h.snap # NoSnap /\ h.snap.READ_LIST = <<>> /\ h.snap.INPUT_LIST # <<>>

\* C8: a flush that starts with an empty READ_LIST and n > 0 entries in
\* INPUT_LIST appends the n entries to READ_LIST in INPUT_LIST order, adds
\* every identifier to READ_SEEN, clears INPUT_LIST and INPUT_SEEN, never
\* moves anything into PROCESSING_LIST and reports {flushed: n, bootstrap:
\* true}; the flush right after it reports {flushed: 0, bootstrap: false}.
C8_Bootstrap ==
    \A h \in Handlers(fl) :
        /\ Bootstrapping(h) => PROCESSING_LIST = h.snap.PROCESSING_LIST
        /\ (Bootstrapping(h) /\ h.pc = "release") =>
               /\ READ_LIST = [i \in 1..Len(h.snap.INPUT_LIST) |->
                      JSON_stringify(ParseOrWrap(h.snap.INPUT_LIST[i]))]
               /\ READ_SEEN = h.snap.READ_SEEN \cup IdsOf(h.snap.INPUT_LIST)
               /\ INPUT_LIST = <<>>
               /\ INPUT_SEEN = {}
               /\ h.result = [status |-> 200,
                              flushed |-> Len(h.snap.INPUT_LIST),
                              bootstrap |-> TRUE]
        /\ (/\ h.pc = "release" /\ h.snap # NoSnap /\ h.snap.quiet
            /\ h.snap.prev.bootstrap /\ h.snap.prev.flushed > 0) =>
               h.result = [status |-> 200, flushed |-> 0, bootstrap |-> FALSE]

\* C8 witness (Scenario B): a flush that found three entries in INPUT_LIST
\* and an empty READ_LIST has computed its result
C8_ScenarioB ==
    \E h \in Handlers(fl) :
        /\ Bootstrapping(h) /\ h.pc = "release"
        /\ Len(h.snap.INPUT_LIST) = 3
        /\ h.result.flushed = 3 /\ h.result.bootstrap

\* a stored record without the bookkeeping identifier the drain loop attaches
Submitted(s) == JSON_stringify([JSON_parse(s) EXCEPT !.generated_id = Null])

RECURSIVE IsSubseq(_, _)
\* the elements of a occur in b in the same relative order
IsSubseq(a, b) ==
    IF a = <<>> THEN TRUE
    ELSE IF b = <<>> THEN FALSE
    ELSE IF Head(a) = Head(b) THEN IsSubseq(Tail(a), Tail(b))
    ELSE IsSubseq(a, Tail(b))

\* what a flush has appended to READ_LIST since it started
Promoted(h) ==
    [i \in 1..(Len(READ_LIST) - Len(h.snap.READ_LIST)) |->
        Submitted(READ_LIST[Len(h.snap.READ_LIST) + i])]

\* C9: records accepted in the order r1, ..., rk by sequential submissions
\* (the order of INPUT_LIST) are in READ_LIST in that relative order after a
\* flush has promoted them, by the bootstrap path and by the drain loop.
C9_OrderPreserved ==
    \A h \in Handlers(fl) :
        (h.pc = "release" /\ h.snap # NoSnap) =>
            IsSubseq(Promoted(h), h.snap.INPUT_LIST)

\* C10: whenever LOCK_FLUSH exists and no handler in progress is going to
\* release it, the key carries a time-to-live, so it expires and a later
\* flush request acquires the lock.
C10_LockHasTTL == (LOCK_FLUSH # NoKey /\ fl = EmptyBag) => LOCK_FLUSH.ttl

----------------------------------------------------------------------------
(* api/collector.js: reading the Read Log *)

\* a cursor-mode session that started at cursor 0 and has its last answer
PagedToEnd(h) ==
    /\ h.pc = "api_rd_done"
    /\ h.q0.batches = <<>>
    /\ api_cursor(h.q0) = 0
    /\ h.out.cursor >= h.out.total

\* everything a paging session has received, in the order received
Received(h) == h.got \o h.out.record

\* C11: a reader that starts at cursor 0 and follows the returned next
\* cursor has, at the end, received exactly `total` records: the Read Log
\* entries, each exactly once and in Read Log order
C11_PaginationTotal ==
    \A h \in Handlers(sub) :
        PagedToEnd(h) =>
            /\ Len(Received(h)) = h.out.total
            /\ h.out.total = Len(READ_LIST)
            /\ \A i \in 1..Len(READ_LIST) :
                   JSON_stringify(Received(h)[i]) = READ_LIST[i]

\* C11 without a placeholder in the Read Log: the same statement on logs
\* whose entries all parse
C11_PaginationTotalParsable ==
    \A h \in Handlers(sub) :
        (PagedToEnd(h) /\ \A i \in 1..Len(READ_LIST) : IsJSON(READ_LIST[i])) =>
            /\ Len(Received(h)) = h.out.total
            /\ \A i \in 1..Len(READ_LIST) :
                   JSON_stringify(Received(h)[i]) = READ_LIST[i]

\* a cursor-mode request that has its answer
CursorAnswered(h) == h.pc = "api_rd_done" /\ h.q.batches = <<>>

\* the offset a cursor-mode query asks for
AskedOffset(q) == IF q.cursor.given THEN q.cursor.n ELSE 0

\* the records at Read Log positions [c, c+n), in Read Log order (an entry
\* that is no JSON holds no record)
RecordsAt(list, c, n) ==
    LET k == Max(0, Min(n, Len(list) - c))
        entries == [i \in 1..k |-> list[c + i]]
        kept == SelectSeq(entries, IsJSON)
    IN [i \in 1..Len(kept) |-> JSON_parse(kept[i])]

\* the count bound as the claim words it: the limit parameter (the batch
\* size when it is missing) clamped to 1..1000
ClampedBound(q) ==
    Min(Max(IF q.limit.given THEN q.limit.n ELSE api_batchSize(q), 1), MAX_LIMIT)

\* the count bound with a limit of 0 standing for the batch size as well
BoundOrBatchSize(q) ==
    Min(Max(IF q.limit.given /\ q.limit.n # 0 THEN q.limit.n
            ELSE api_batchSize(q), 1), MAX_LIMIT)

\* a cursor-mode answer for offset c and count bound n
CursorAnswer(h, n) ==
    LET c == AskedOffset(h.q)
    IN /\ h.out.status = 200
       /\ h.out.record = RecordsAt(READ_LIST, c, n)
       /\ h.out.cursor = c + Len(h.out.record)
       /\ h.out.total = Len(READ_LIST)

PositionsIn(list, i, b) == Max(0, Min(b, Len(list) - (i - 1) * b))

\* entry e answers batch index i with batch size b: its posts are the Read
\* Log entries at positions [(i-1)*b, i*b) (whatever stands for an entry
\* that is no JSON, see C14) and its count is their number
BatchEntry(e, list, i, b) ==
    /\ e.idx = i
    /\ e.count = Len(e.posts)
    /\ e.count = PositionsIn(list, i, b)
    /\ \A k \in 1..e.count :
           LET s == list[(i - 1) * b + k]
           IN IsJSON(s) => e.posts[k] = JSON_parse(s)

\* C13 (server): a batch-index read answers 200 with one entry {idx, count,
\* posts} for the requested index, holding the Read Log entries at positions
\* [(i-1)*b, i*b); beyond the range, and on an empty Read Log, the entry
\* has count 0 and no posts
C13_BatchIndex ==
    \A h \in Handlers(sub) :
        h.pc = "rd_done" =>
            /\ h.out.status = 200
            /\ Len(h.out.batches) = 1
            /\ BatchEntry(h.out.batches[1], READ_LIST, batchNumOf(h.q),
                          batchSizeOf(h.q))

\* C13 on a Read Log that is not empty
C13_BatchIndexNonEmpty ==
    \A h \in Handlers(sub) :
        (h.pc = "rd_done" /\ READ_LIST # <<>>) =>
            /\ h.out.status = 200
            /\ Len(h.out.batches) = 1
            /\ BatchEntry(h.out.batches[1], READ_LIST, batchNumOf(h.q),
                          batchSizeOf(h.q))

\* C13 (api/collector.js, batches mode): one entry per requested index
\* i >= 1, in the order requested, each holding the records at positions
\* [(i-1)*b, i*b); count 0 and no posts beyond the range
C13_BatchIndexApi ==
    \A h \in Handlers(sub) :
        (h.pc = "api_rd_done" /\ h.q.batches # <<>>) =>
            LET asked == SelectSeq(h.q.batches, LAMBDA n : n >= 1)
                b == api_batchSize(h.q)
            IN /\ h.out.status = 200
               /\ Len(h.out.batches) = Len(asked)
               /\ \A j \in 1..Len(asked) :
                      LET e == h.out.batches[j]
                      IN /\ e.idx = asked[j]
                         /\ e.count = Len(e.posts)
                         /\ e.posts = RecordsAt(READ_LIST, (asked[j] - 1) * b, b)

\* no record of the answer stands for a Read Log entry that is no JSON
OnlyParsed(posts, list) ==
    \A k \in 1..Len(posts) :
        \E i \in 1..Len(list) :
            IsJSON(list[i]) /\ posts[k] = JSON_parse(list[i])

\* C14 (server): an entry of the Read Log that fails to parse is left out
\* of the returned slice, the answer is 200 and total is the raw length
C14_UnparsableOmitted ==
    \A h \in Handlers(sub) :
        h.pc = "rd_done" =>
            /\ h.out.status = 200
            /\ h.out.total = Len(READ_LIST)
            /\ \A j \in 1..Len(h.out.batches) :
                   /\ OnlyParsed(h.out.batches[j].posts, READ_LIST)
                   /\ h.out.batches[j].posts =
                         RecordsAt(READ_LIST,
                                   (batchNumOf(h.q) - 1) * batchSizeOf(h.q),
                                   batchSizeOf(h.q))

\* C14 (api/collector.js, cursor mode and batches mode)
C14_UnparsableOmittedApi ==
    \A h \in Handlers(sub) :
        h.pc = "api_rd_done" =>
            /\ h.out.status = 200
            /\ h.out.total = Len(READ_LIST)
            /\ IF h.q.batches = <<>>
               THEN OnlyParsed(h.out.record, READ_LIST)
               ELSE \A j \in 1..Len(h.out.batches) :
                       OnlyParsed(h.out.batches[j].posts, READ_LIST)

\* an answer of api/collector.js that left a placeholder out
C14_PlaceholderRead ==
    \E h \in Handlers(sub) :
        /\ h.pc = "api_rd_done"
        /\ h.q.batches = <<>>
        /\ api_cursor(h.q) = 0
        /\ READ_LIST # <<>> /\ ~IsJSON(READ_LIST[1])
        /\ Len(READ_LIST) = 2 /\ Len(h.out.record) = 1

----------------------------------------------------------------------------
(* Validation of the submission body *)

\* a submission handler about to answer 201; one about to answer 400
Answers201(h) == h.pc = "llen"
Answers400(h) == h.pc = "bad_400"

\* only a non-empty array of records is answered 201
C15_OnlyNonEmpty201 ==
    \A h \in Handlers(sub) : Answers201(h) => h.body # <<>>

\* a rejected submission finds INPUT_LIST and INPUT_SEEN as they were when
\* it arrived
C15_RejectedUnchanged ==
    \A h \in Handlers(sub) :
        Answers400(h) =>
            /\ INPUT_LIST = h.snap.INPUT_LIST
            /\ INPUT_SEEN = h.snap.INPUT_SEEN

\* C15: a body that is no array (and holds none in posts), or an empty
\* array, is answered 400 with INPUT_LIST and INPUT_SEEN unchanged; only a
\* non-empty array is answered 201
C15_BodyValidation == C15_OnlyNonEmpty201 /\ C15_RejectedUnchanged

----------------------------------------------------------------------------
(* Flush requests that are turned away *)

\* the turned-away flush requests among the handlers of a bag
RejectedIn(bag) ==
    [h \in {x \in BagToSet(bag) : x.pc = "answer"} |-> CopiesIn(h, bag)]

\* C16: a flush request with a missing or wrong secret is answered 401 and
\* one that arrives while LOCK_FLUSH exists is answered 423 (and only such a
\* one, and never admitted to flushAll); the steps of such a request leave
\* every store key as it is, the lock of the holder included
C16_RejectedTouchNothing ==
    [][ /\ RejectedIn(fl') # RejectedIn(fl) => UNCHANGED store
        /\ CopiesIn(Rejected(423), fl') > CopiesIn(Rejected(423), fl)
              => LOCK_FLUSH # NoKey
        /\ CopiesIn(FlStart, fl') > CopiesIn(FlStart, fl)
              => LOCK_FLUSH = NoKey /\ LOCK_FLUSH' # NoKey
        /\ \A h \in DOMAIN RejectedIn(fl') : h.result.status \in {401, 423}
      ]_vars

\* a flush is inside flushAll with its lock, one request has been turned
\* away with 423 and one with 401
C16_TurnedAway ==
    /\ \E h \in Handlers(fl) : h.pc \in InFlushAll /\ h.live
    /\ LOCK_FLUSH # NoKey
    /\ BagIn(Rejected(423), fl)
    /\ INPUT_LIST # <<>>

----------------------------------------------------------------------------
(* Records without identifier *)

\* number of records of a body that have no identifier
NoIdIn(body) ==
    Cardinality({i \in 1..Len(body) : itemIdOf(body[i]) = Null})

\* C17: every submitted record without identifier is accepted and appended
\* to INPUT_LIST, identical content or not (no such record is skipped), and
\* a flush adds to READ_LIST one entry for every entry without identifier
\* it found in INPUT_LIST, leaving none behind
C17_NoIdNeverDeduplicated ==
    /\ \A h \in Handlers(sub) :
           SubDone(h) =>
               /\ CountNoId(INPUT_LIST) =
                     CountNoId(h.snap.INPUT_LIST) + NoIdIn(h.body)
               /\ h.accepted + h.skipped = Len(h.body)
               /\ h.skipped <= Len(h.body) - NoIdIn(h.body)
    /\ \A h \in Handlers(fl) :
           (h.pc = "release" /\ h.snap # NoSnap) =>
               /\ CountNoId(READ_LIST) =
                     CountNoId(h.snap.READ_LIST) + CountNoId(h.snap.INPUT_LIST)
               /\ CountNoId(INPUT_LIST) = 0
               /\ CountNoId(PROCESSING_LIST) = 0

\* a drain-loop flush that found two records without identifier and with
\* the same content in INPUT_LIST has computed its result
C17_TwoAlike ==
    \E h \in Handlers(fl) :
        /\ h.pc = "release" /\ h.snap # NoSnap
        /\ h.snap.INPUT_LIST = <<JSON_stringify(PN), JSON_stringify(PN)>>
        /\ h.snap.READ_LIST # <<>>
        /\ ~h.result.bootstrap

----------------------------------------------------------------------------
(* The Read Log between daily resets *)

IsPrefixOf(a, b) == Len(a) <= Len(b) /\ SubSeq(b, 1, Len(a)) = a

\* the step of a request's daily-reset check that deletes the four keys
DailyResetDel == checkAndResetDaily_del \/ getCollector_reset_del

\* C18 as stated: every step other than a daily reset leaves the previous
\* READ_LIST as a prefix of the new READ_LIST
C18_AppendOnly ==
    [][IsPrefixOf(READ_LIST, READ_LIST') \/ DailyResetDel]_vars

\* C18 amended: the same, except for the flush that finds a first entry
\* that is no JSON: ensureReadStructures then deletes READ_LIST (and
\* READ_SEEN) as a whole before it bootstraps
C18_AppendOnlyButPlaceholder ==
    [][\/ IsPrefixOf(READ_LIST, READ_LIST')
       \/ DailyResetDel
       \/ /\ ensureReadStructures_del_read
          /\ ~IsJSON(Head(READ_LIST))]_vars

\* a flush that found a placeholder at the head of READ_LIST has deleted
\* the Read Log
C18_PlaceholderCleared ==
    \E h \in Handlers(fl) :
        /\ h.pc = "llen2" /\ h.snap # NoSnap
        /\ h.snap.READ_LIST # <<>> /\ ~IsJSON(Head(h.snap.READ_LIST))
        /\ READ_LIST = <<>>
        /\ INPUT_LIST # <<>>

----------------------------------------------------------------------------
(* The daily reset of the server *)

\* pcs of a submission or read handler inside checkAndResetDaily, after its
\* redis.get: before the del, and between the del and the set
BeforeDel == {"del_all", "rd_del", "bad_del_all"}
BeforeSet == {"set_date", "rd_set_date", "bad_set_date"}

AllCleared ==
    INPUT_LIST = <<>> /\ INPUT_SEEN = {} /\ READ_LIST = <<>> /\ READ_SEEN = {}

\* a step of a submission or read handler that removes something from one
\* of the four keys
RequestClears ==
    /\ sub' # sub
    /\ \/ Len(INPUT_LIST') < Len(INPUT_LIST)
       \/ Len(READ_LIST') < Len(READ_LIST)
       \/ ~(INPUT_SEEN \subseteq INPUT_SEEN')
       \/ ~(READ_SEEN \subseteq READ_SEEN')

\* C19: the daily-reset check of a submission or read request clears
\* INPUT_LIST, INPUT_SEEN, READ_LIST and READ_SEEN if and only if
\* LAST_DATE_KEY differs from today's date; when the check is done
\* LAST_DATE_KEY is today's date; a request that finds LAST_DATE_KEY equal
\* to today's date clears nothing
C19_ResetIffDateDiffers ==
    /\ [](\A h \in Handlers(sub) :
             /\ h.pc \in BeforeDel \cup BeforeSet => LAST_DATE_KEY # h.day
             /\ h.pc \in BeforeSet => AllCleared
             /\ h.pc \notin BeforeDel \cup BeforeSet =>
                    LAST_DATE_KEY = h.day /\ h.day = today)
    /\ [][/\ RequestClears => LAST_DATE_KEY # today /\ AllCleared'
          /\ \A h \in Handlers(sub') \ Handlers(sub) :
                (Handlers(sub) = {} /\ LAST_DATE_KEY # today)
                    => h.pc \in BeforeDel
         ]_vars

\* a read request, the first of the day, has cleared the four keys and is
\* about to persist the date
C19_FirstOfDay ==
    \E h \in Handlers(sub) :
        /\ h.pc = "rd_set_date"
        /\ h.day = "d2" /\ LAST_DATE_KEY = "d1"
        /\ AllCleared
        /\ hist.prev # NoResult

----------------------------------------------------------------------------
(* The daily reset of api/collector.js *)

\* pcs of a handler of api/collector.js about to run the del of its reset
ApiBeforeDel == {"api_del_input", "api_rd_del_input", "api_fl_del_input"}

\* a handler runs the del of its daily reset
ApiResetDel ==
    /\ \E h \in Handlers(sub) \cup Handlers(fl) : h.pc \in ApiBeforeDel
    /\ sub' # sub \/ fl' # fl

\* C20: a daily reset of api/collector.js empties INPUT_LIST and INPUT_SEEN
\* and nothing else; no step, a reset included, removes or changes an entry
\* of READ_LIST or a member of READ_SEEN, and a read, also after a date
\* change, returns the records at the positions it asks for
C20_ResetKeepsReadLog ==
    /\ [](\A h \in Handlers(sub) :
             CursorAnswered(h) =>
                 h.out.record = RecordsAt(READ_LIST, api_cursor(h.q),
                                          api_limit(h.q)))
    /\ [][/\ IsPrefixOf(READ_LIST, READ_LIST')
          /\ READ_SEEN \subseteq READ_SEEN'
          /\ ApiResetDel =>
                /\ INPUT_LIST' = <<>> /\ INPUT_SEEN' = {}
                /\ UNCHANGED <<READ_LIST, READ_SEEN, PROCESSING_LIST,
                               LOCK_FLUSH>>
         ]_vars

\* the first read request after midnight has run the del of its reset and
\* the records confirmed the day before are in READ_LIST and READ_SEEN
C20_ArchiveKept ==
    \E h \in Handlers(sub) :
        /\ h.pc = "api_rd_set_date"
        /\ h.day = "d2" /\ LAST_DATE_KEY = "d1"
        /\ Len(READ_LIST) >= 2 /\ READ_SEEN # {}
        /\ INPUT_LIST = <<>>

----------------------------------------------------------------------------
(* Where a record is while it is promoted *)

\* the number of lists among INPUT_LIST, PROCESSING_LIST and READ_LIST that
\* hold an entry with identifier x
PlacesOf(x) ==
    Cardinality({l \in {<<1, INPUT_LIST>>, <<2, PROCESSING_LIST>>,
                        <<3, READ_LIST>>} : CountId(l[2], x) > 0})

\* entries without identifier in the three lists together
NoIdEverywhere(s) ==
    CountNoId(s.INPUT_LIST) + CountNoId(s.PROCESSING_LIST)
    + CountNoId(s.READ_LIST)

\* C21: at every instant of a promotion, every record the flush found
\* staged and not yet confirmed is in exactly one of INPUT_LIST,
\* PROCESSING_LIST and READ_LIST: never in two of them, never in none
C21_ExactlyOnePlace ==
    \A h \in Handlers(fl) :
        (h.pc \in InFlushAll /\ h.snap # NoSnap) =>
            /\ \A x \in IdsOf(h.snap.INPUT_LIST) \ h.snap.READ_SEEN :
                   PlacesOf(x) = 1
            /\ NoIdEverywhere(Snapshot) = NoIdEverywhere(h.snap)

\* the part of C21 that the drain loop and the bootstrap keep: never in none
C21_NeverInNone ==
    \A h \in Handlers(fl) :
        (h.pc \in InFlushAll /\ h.snap # NoSnap) =>
            /\ \A x \in IdsOf(h.snap.INPUT_LIST) \ h.snap.READ_SEEN :
                   PlacesOf(x) >= 1
            /\ NoIdEverywhere(Snapshot) >= NoIdEverywhere(h.snap)

----------------------------------------------------------------------------
(* Store failures in the drain loop *)

\* the item whose promotion threw has an identifier
FailedId == IdOfEntry(hist.fail.s)

\* C22: a record whose promotion hit a store failure in the drain loop is
\* not lost: when the flush has done its work the record is in INPUT_LIST
\* (or promoted already), and when a later flush without failure has done
\* its work the record is in READ_LIST
C22_FailedNotLost ==
    \A h \in Handlers(fl) :
        (h.pc = "release" /\ hist.fail # NoItem) =>
            /\ FailedId # Null =>
                   /\ FailedId \in IdsOf(INPUT_LIST) \cup IdsOf(READ_LIST)
                   /\ ~h.failed => FailedId \in IdsOf(READ_LIST)
            /\ h.snap # NoSnap =>
                   /\ NoIdEverywhere(Snapshot) = NoIdEverywhere(h.snap)
                   /\ ~h.failed => CountNoId(INPUT_LIST) = 0

\* C22 for the failures that leave READ_SEEN as it was: a throwing sadd,
\* and a throwing rpush of a record without identifier
C22_FailedBeforeSeen ==
    \A h \in Handlers(fl) :
        (h.pc = "release" /\ hist.fail # NoItem /\ hist.fail.at # "rpush") =>
            /\ FailedId # Null =>
                   /\ FailedId \in IdsOf(INPUT_LIST) \cup IdsOf(READ_LIST)
                   /\ ~h.failed => FailedId \in IdsOf(READ_LIST)
            /\ h.snap # NoSnap =>
                   /\ NoIdEverywhere(Snapshot) = NoIdEverywhere(h.snap)
                   /\ ~h.failed => CountNoId(INPUT_LIST) = 0

\* the raw item is pushed back onto the head of INPUT_LIST before it is
\* removed from PROCESSING_LIST: the step after the throw puts it at the
\* head of INPUT_LIST while PROCESSING_LIST still holds it
C23_RequeueAtHead ==
    [][\A h \in Handlers(fl) :
          (h.pc = "requeue" /\ fl' # fl) =>
              /\ INPUT_LIST' = <<h.s>> \o INPUT_LIST
              /\ PROCESSING_LIST' = PROCESSING_LIST
              /\ \E i \in 1..Len(PROCESSING_LIST) : PROCESSING_LIST[i] = h.s
      ]_vars

\* after the failure the flush moves nothing more from INPUT_LIST to
\* PROCESSING_LIST
C23_NoMoveAfterFailure ==
    [][Len(PROCESSING_LIST') > Len(PROCESSING_LIST) =>
          \A h \in Handlers(fl) : h.pc = "rpoplpush" => ~h.failed]_vars

\* C23: when a store call fails while a moved item is promoted, the raw
\* item is pushed back onto the head of INPUT_LIST before it is removed
\* from PROCESSING_LIST, and the flush then aborts: it moves nothing more
\* from INPUT_LIST to PROCESSING_LIST in that invocation
C23_RequeueAndAbort == C23_RequeueAtHead /\ C23_NoMoveAfterFailure

----------------------------------------------------------------------------
(* Submissions that run while a flush runs *)

\* C24 (server): a flush removes from INPUT_LIST only entries it has read:
\* a step that shortens INPUT_LIST either moves its last entry to
\* PROCESSING_LIST or is the del of a bootstrap that copied every entry
\* INPUT_LIST holds at that moment
C24_DeletesOnlyWhatItRead ==
    [][Len(INPUT_LIST') < Len(INPUT_LIST) =>
          \/ /\ INPUT_LIST' = Front(INPUT_LIST)
             /\ PROCESSING_LIST' = lpush(PROCESSING_LIST, Last(INPUT_LIST))
          \/ \E h \in Handlers(fl) :
                /\ h.pc = "boot_del"
                /\ Len(INPUT_LIST) = h.moved
      ]_vars

\* C24 (api/collector.js): the del of a flush finds in INPUT_LIST the
\* entries its lrange returned and no other
C24_ApiDeletesOnlyWhatItRead ==
    [][Len(INPUT_LIST') < Len(INPUT_LIST) =>
          \E h \in Handlers(fl) :
              /\ h.pc = "api_del_input_list"
              /\ Len(INPUT_LIST) = h.nread
      ]_vars

----------------------------------------------------------------------------
(* The staging structures *)

\* C25: INPUT_LIST never holds two entries with the same identifier
C25_StagingUnique ==
    \A x \in IdsOf(INPUT_LIST) : CountId(INPUT_LIST, x) = 1

\* no flush is between its acquireLock and its releaseLock and the startup
\* task is not running
NoPromotion ==
    /\ \A h \in Handlers(fl) : h.pc \notin InFlushAll
    /\ rec.pc = "off"

\* C26: whenever no flush is promoting, READ_SEEN is exactly the set of the
\* identifiers of the entries of READ_LIST
C26_ReadSeenExact == NoPromotion => READ_SEEN = IdsOf(READ_LIST)

\* the half of C26 that a store failure in the drain loop leaves intact
C26_ReadSeenCovers == NoPromotion => IdsOf(READ_LIST) \subseteq READ_SEEN

\* C27: whenever no promotion is in flight, every identifier in INPUT_SEEN
\* is the identifier of exactly one entry of INPUT_LIST
C27_StagingSeenExact ==
    (NoPromotion /\ sub = EmptyBag) =>
        \A x \in INPUT_SEEN : CountId(INPUT_LIST, x) = 1

\* the converse, which the handlers keep: every identified entry of
\* INPUT_LIST has its identifier in INPUT_SEEN, once
C27_StagedAreSeen ==
    (NoPromotion /\ sub = EmptyBag) =>
        \A x \in IdsOf(INPUT_LIST) :
            x \in INPUT_SEEN /\ CountId(INPUT_LIST, x) = 1

----------------------------------------------------------------------------
(* Who writes while promoting *)

\* a step that writes to PROCESSING_LIST, appends to READ_LIST, or puts an
\* item back into INPUT_LIST from PROCESSING_LIST
PromotionWrite ==
    \/ PROCESSING_LIST' # PROCESSING_LIST
    \/ Len(READ_LIST') > Len(READ_LIST)
    \/ rec' # rec /\ INPUT_LIST' # INPUT_LIST

\* the step is taken by a flush handler that is inside flushAll while the
\* lock key it set is in the store
HolderActs ==
    /\ fl' # fl
    /\ LOCK_FLUSH # NoKey
    /\ \E h \in Handlers(fl) : h.live /\ h.pc \in InFlushAll

\* C28: every write to PROCESSING_LIST and every promotion-side write to
\* INPUT_LIST or READ_LIST is made by a process that holds the lock at that
\* moment, the writes of recoverProcessingList included
C28_WritersHoldLock == [][PromotionWrite => HolderActs]_vars

----------------------------------------------------------------------------
(* Two resets on the date boundary *)

\* C29: once LAST_DATE_KEY equals today's date, no later step of any
\* request deletes INPUT_LIST, INPUT_SEEN, READ_LIST or READ_SEEN on that
\* date: the reset of a second request that ran the check concurrently
\* removes nothing, so no record accepted after the date was updated is
\* deleted by a reset
C29_SecondResetNoOp == [][RequestClears => LAST_DATE_KEY # today]_vars

\* the part of C29 that holds: a request that starts its check when
\* LAST_DATE_KEY equals today's date never reaches the del
C29_CheckedAfterUpdate ==
    [][BagCardinality(sub') > BagCardinality(sub) =>
          \A h \in Handlers(sub' (-) sub) :
              LAST_DATE_KEY = today => h.pc \notin BeforeDel \cup BeforeSet]_vars

----------------------------------------------------------------------------
(* A daily reset during a flush *)

\* C30: whatever the interleaving of a daily reset with a flush in
\* progress, once no request is in progress every identified record of
\* READ_LIST has its identifier in READ_SEEN and no identifier occurs twice
\* in READ_LIST, also after later submissions and flushes
C30_ResetKeepsReadLogSound ==
    (sub = EmptyBag /\ fl = EmptyBag) =>
        /\ IdsOf(READ_LIST) \subseteq READ_SEEN
        /\ \A x \in IdsOf(READ_LIST) : CountId(READ_LIST, x) <= 1

----------------------------------------------------------------------------
(* What a flush reports *)

\* flush handlers that have their result and have not released the lock yet,
\* with the store they found at their start recorded
Reporting == {h \in Handlers(fl) : h.pc = "release" /\ h.snap # NoSnap}

\* C31: a flush reports bootstrap: true only if at its start READ_LIST was
\* empty and INPUT_LIST was not; in every other case, both lists empty
\* included, it reports bootstrap: false
C31_BootstrapOnlyFirstRun ==
    \A h \in Reporting :
        h.result.bootstrap <=>
            (h.snap.READ_LIST = <<>> /\ h.snap.INPUT_LIST # <<>>)

\* what the code does instead: with one request at a time and no placeholder
\* a flush reports bootstrap: true exactly when READ_LIST was empty at its
\* start
C31_BootstrapIffReadEmpty ==
    \A h \in Reporting : h.result.bootstrap <=> h.snap.READ_LIST = <<>>

\* C32: when a flush completes without a store failure and with no
\* concurrent submission, INPUT_LIST and PROCESSING_LIST are both empty
\* afterwards, whatever they held when the flush started
C32_FlushEmptiesBoth ==
    \A h \in Handlers(fl) :
        (h.pc = "release" /\ ~h.failed /\ sub = EmptyBag) =>
            INPUT_LIST = <<>> /\ PROCESSING_LIST = <<>>

\* the half of C32 that holds whatever PROCESSING_LIST held: INPUT_LIST is
\* empty after the flush
C32_FlushEmptiesStaging ==
    \A h \in Handlers(fl) :
        (h.pc = "release" /\ ~h.failed /\ sub = EmptyBag) => INPUT_LIST = <<>>

----------------------------------------------------------------------------
(* Store failures in acquireLock and releaseLock *)

\* C33: when a store call of acquireLock fails the request gets no lock and
\* LOCK_FLUSH is never left set without an expiry, so a later flush is
\* blocked at most up to the time-to-live; when the store call of
\* releaseLock fails the handler still completes with its result
C33_LockFailuresBounded ==
    /\ []((fl = EmptyBag /\ hist.fail # NoItem /\ LOCK_FLUSH # NoKey)
              => LOCK_FLUSH.ttl)
    /\ [][releaseLock_del_throws =>
              /\ hist'.prev.status = 200
              /\ BagCardinality(fl') < BagCardinality(fl)]_vars

\* the parts of C33 that hold: a failed setnx leaves no key, a failed del
\* leaves a key that has its expiry, and the handler whose del failed
\* completes with its result
C33_SetnxAndReleaseFailures ==
    /\ []((fl = EmptyBag /\ hist.fail # NoItem
              /\ hist.fail.at \in {"setnx", "release"} /\ LOCK_FLUSH # NoKey)
              => LOCK_FLUSH.ttl)
    /\ [][releaseLock_del_throws =>
              /\ hist'.prev.status = 200
              /\ BagCardinality(fl') < BagCardinality(fl)]_vars

----------------------------------------------------------------------------
(* Termination of a flush *)

\* C34: every flush request that acquired the lock eventually returns and
\* deletes the lock key: the drain loop terminates also when store calls
\* fail while items are promoted, and the lock is released also when
\* flushAll throws
C34_FlushTerminates ==
    (fl # EmptyBag) ~> (fl = EmptyBag /\ LOCK_FLUSH = NoKey)

\* the part of C34 that holds: a flush whose flushAll threw releases the
\* lock like any other (the finally block)
C34_ThrowReleases ==
    [][(\E h \in Handlers(fl) : h.pc = "release" /\ h.result.status = 500)
          => (fl' # fl => LOCK_FLUSH' = NoKey)]_vars

----------------------------------------------------------------------------
(* Store failures in the bootstrap loop *)

\* a bootstrap flush, one of whose store calls threw, has its result
BootFailed(h) ==
    /\ h.pc = "release" /\ h.failed /\ h.result.status = 200
    /\ h.result.bootstrap
    /\ hist.fail # NoItem /\ hist.fail.at \in {"boot_rpush", "boot_sadd"}

\* the entry s of INPUT_LIST is in READ_LIST, its identifier in READ_SEEN
PromotedSound(s) ==
    LET obj == ParseOrWrap(s)
    IN /\ \E i \in 1..Len(READ_LIST) : READ_LIST[i] = JSON_stringify(obj)
       /\ itemIdOf(obj) # Null => StringOf(itemIdOf(obj)) \in READ_SEEN

StillStaged(s) == \E i \in 1..Len(INPUT_LIST) : INPUT_LIST[i] = s

\* C35: after a bootstrap flush, an INPUT_LIST entry whose rpush to
\* READ_LIST or whose sadd to READ_SEEN failed is either in READ_LIST with
\* its identifier in READ_SEEN, or still in INPUT_LIST, never both and never
\* neither
C35_BootFailureKeepsEntry ==
    \A h \in Handlers(fl) :
        BootFailed(h) => (PromotedSound(hist.fail.s) # StillStaged(hist.fail.s))

\* the part of C35 that holds: INPUT_LIST is left as it was when the
\* bootstrap moved nothing
C35_IntactWhenNoneMoved ==
    \A h \in Handlers(fl) :
        (BootFailed(h) /\ h.result.flushed = 0 /\ h.snap # NoSnap) =>
            INPUT_LIST = h.snap.INPUT_LIST

----------------------------------------------------------------------------
(* A store failure in the middle of a submission *)

\* C36: when a store call fails in the middle of a submission (answer 500),
\* no identifier is left in INPUT_SEEN without its record in INPUT_LIST, so
\* the record is accepted when the client submits it again
C36_FailedSubmissionRetryable ==
    (sub = EmptyBag /\ hist.fail # NoItem /\ hist.fail.at = "post_rpush") =>
        \A x \in INPUT_SEEN : x \in IdsOf(INPUT_LIST)

\* the records the failed submission had accepted before the failure stay
\* accepted: every identified entry of INPUT_LIST has its identifier in
\* INPUT_SEEN
C36_AcceptedBeforeFailureKept ==
    (sub = EmptyBag /\ hist.fail # NoItem /\ hist.fail.at = "post_rpush") =>
        IdsOf(INPUT_LIST) \subseteq INPUT_SEEN

----------------------------------------------------------------------------
(* The flushed count *)

\* C37: the flushed value flushAll returns equals the number of entries
\* that invocation appended to READ_LIST, on the bootstrap path and on the
\* steady-state path, store failures included; records discarded as
\* duplicates are not counted
C37_FlushedCountsAppended ==
    \A h \in Reporting :
        h.result.status = 200 =>
            h.result.flushed = Len(READ_LIST) - Len(h.snap.READ_LIST)

\* the same for the steady-state path alone, where it holds with failures
C37_DrainCountsAppended ==
    \A h \in Reporting :
        (h.result.status = 200 /\ ~h.result.bootstrap) =>
            h.result.flushed = Len(READ_LIST) - Len(h.snap.READ_LIST)

----------------------------------------------------------------------------
(* What a submission writes *)

\* pcs of a submission handler in the for-loop over items and at its llen
InSubmission == {"rpush_noid", "sismember", "sadd", "rpush", "llen"}

\* the step is taken by a submission handler that is past its daily-reset
\* check
SubmissionActs ==
    \E h \in Handlers(sub) :
        h.pc \in InSubmission /\ CopiesIn(h, sub') < CopiesIn(h, sub)

\* C38: a submission handler, after its daily-reset check, leaves READ_LIST,
\* READ_SEEN, PROCESSING_LIST, LOCK_FLUSH and LAST_DATE_KEY unchanged, only
\* appends to INPUT_LIST and only adds to INPUT_SEEN
C38_SubmissionFrame ==
    [][SubmissionActs =>
          /\ UNCHANGED <<READ_LIST, READ_SEEN, PROCESSING_LIST, LOCK_FLUSH,
                         LAST_DATE_KEY>>
          /\ IsPrefixOf(INPUT_LIST, INPUT_LIST')
          /\ INPUT_SEEN \subseteq INPUT_SEEN']_vars

\* a submission has appended a second record to INPUT_LIST while
\* READ_LIST and READ_SEEN hold records of an earlier flush
C38_AppendedBesideReadLog ==
    \E h \in Handlers(sub) :
        /\ h.pc = "llen" /\ h.accepted = 1
        /\ Len(INPUT_LIST) = 2
        /\ INPUT_SEEN # {}
        /\ READ_LIST # <<>> /\ READ_SEEN # {}
        /\ LAST_DATE_KEY = today

----------------------------------------------------------------------------
(* api/mix.js: items on their way to the gist *)

InSeq(it, list) == \E i \in 1..Len(list) : list[i] = it

\* C39: items accepted by POST reach the gist: a POST with new items that
\* arrives after the cache has expired pushes the merged data and answers
\* 201, a GET that arrives after expiry pushes the cached data, and an item
\* answered 202 is never dropped from the cache before it is pushed
C39_AcceptedReachGist ==
    /\ [](\A it \in mix.acked :
             InSeq(it, mix.cache.data) \/ InSeq(it, mix.gist.data))
    /\ [][/\ (mix.pc = "post_merged" /\ mix.req.expired /\ mix'.pc = "idle")
              => mix'.last.status = 201
          /\ (mix.pc = "get_loaded" /\ mix.req.expired /\ mix'.pc = "idle")
              => mix'.last.pushed]_vars

\* what holds: no step taken while the cache is valid drops an item
\* answered 202 from the cache, and a PUT that answers 200 leaves the whole
\* cache in the gist
C39_CachedUntilExpiry ==
    /\ [][CacheValid(mix) =>
              \A it \in mix.acked :
                  InSeq(it, mix.cache.data) => InSeq(it, mix'.cache.data)]_vars
    /\ [][(mix.pc = "idle" /\ mix'.pc = "idle" /\ mix'.last # mix.last
              /\ mix'.last.status = 200 /\ mix'.now = mix.now
              /\ mix'.gist # mix.gist)
             => mix'.gist.data = mix.cache.data]_vars

\* the last clause of C39 alone: an item answered 202 is in the cache or in
\* the gist
C39_NeverDiscarded ==
    \A it \in mix.acked : InSeq(it, mix.cache.data) \/ InSeq(it, mix.gist.data)

====
